---- MODULE Spec2Model ----
(***************************************************************************)
(* Model of the ralph-commander event loop: the event bus (ralph-proto),   *)
(* the iteration engine (ralph-core event_loop), the journal ingest and    *)
(* validation pipeline, the recovery sentinel and the termination policy.  *)
(*                                                                         *)
(* Topics are tuples of their dot-separated segments: build.done is        *)
(* <<"build", "done">>.  A payload is a record: text is the first line as  *)
(* a tuple of tokens, ev names the evidence lines the payload carries.     *)
(***************************************************************************)
EXTENDS Naturals, Integers, Sequences, FiniteSets, TLC

VARIABLES
    cfg,            \* RalphConfig: hats of the registry, persistent flag
    hats,           \* EventBus.hats: registered hat id -> subscriptions
    bus,            \* EventBus: pending, human_pending, routing_mode, ...
    state,          \* LoopState
    elapsed,        \* LoopState.elapsed(), whole seconds of wall clock
    journal,        \* the JSONL event journal, every line appended so far
    offset,         \* EventReader position: lines already consumed
    recovery_file,  \* RECOVERY_QUEUE.md: the entries it holds
    stop_file,      \* .ralph/stop-requested exists
    restart_file,   \* .ralph/restart-requested exists
    audit_log,      \* RequestLog.md: the kinds of the rows appended
    prompts,        \* prompts composed so far by build_prompt
    pc,             \* position of the iteration engine in its cycle
    hat,            \* the hat selected for the current iteration
    termination     \* result of the last termination / completion check

vars == <<cfg, hats, bus, state, elapsed, journal, offset, recovery_file,
          stop_file, restart_file, audit_log, prompts, pc, hat, termination>>

----------------------------------------------------------------------------
(* Bounds of the model. *)

MaxPublished == 3       \* events published in a bus-only run
MaxJournal == 2         \* lines ever appended to the journal in an engine run
MaxLines == 4           \* lines ever appended when the ingest is driven on its own
MaxDisturbances == 1     \* seconds elapsed plus sentinels outstanding at once
MaxApiPublished == 2    \* events published when the bus's setters are called too
MaxStalls == 2          \* prompts composed before the last stall recovery
MaxPieces == 4          \* pieces a payload handed to strip_ansi is made of

(* Limits of the event_loop configuration used by the engine runs. *)
CfgMaxIterations == 2
CfgMaxRuntimeSeconds == 1
CfgMaxCost == 1
CfgMaxConsecutiveFailures == 2

(* Program constants. *)
(* The escape byte that starts an ANSI sequence. *)
ESC == 27

ThrashingLimit == 3         \* abandoned_task_redispatches >= 3
MalformedLimit == 3         \* consecutive_malformed_events >= 3
BlockLimit == 3             \* *count >= 3 blocks abandon a task
ComplexityThreshold == 10   \* QualityReport::COMPLEXITY_THRESHOLD

NoHat == "-"                \* Option<HatId>::None
NoMode == "None"            \* Option<RoutingMode>::None
NoStrategy == "None"        \* Option<TestStrategy>::None
NoReason == "none"          \* Option<TerminationReason>::None

----------------------------------------------------------------------------
(* Topics and matching. *)

TStar == <<"*">>
TTaskStart == <<"task", "start">>
TTaskResume == <<"task", "resume">>
TTriageDecision == <<"triage", "decision">>
TTestStrategy == <<"test", "strategy">>
TPlanReady == <<"plan", "ready">>
TBuildTask == <<"build", "task">>
TBuildDone == <<"build", "done">>
TBuildBlocked == <<"build", "blocked">>
TBuildAbandoned == <<"build", "task", "abandoned">>
TReviewDone == <<"review", "done">>
TEventMalformed == <<"event", "malformed">>
THumanGuidance == <<"human", "guidance">>
TLoopTerminate == <<"loop", "terminate">>
TCompletion == <<"LOOP_COMPLETE">>

is_global_wildcard(pattern) == pattern = TStar

matches(pattern, topic) ==
    \/ pattern = TStar
    \/ pattern = topic
    \/ /\ Len(pattern) >= 2
       /\ pattern[Len(pattern)] = "*"
       /\ Len(topic) >= Len(pattern)
       /\ SubSeq(topic, 1, Len(pattern) - 1) = SubSeq(pattern, 1, Len(pattern) - 1)

starts_with_human(topic) == Len(topic) >= 2 /\ topic[1] = "human"

is_subscribed(subs, topic) == \E sub \in subs : matches(sub, topic)

(* A test that takes the global wildcard for a specific subscription. *)
has_specific_subscription_any(subs, topic) == is_subscribed(subs, topic)

has_specific_subscription(subs, topic) ==
    \E sub \in subs : ~is_global_wildcard(sub) /\ matches(sub, topic)

----------------------------------------------------------------------------
(* Events and payloads. *)

EmptyPayload == [text |-> <<>>, ev |-> "none"]
TextPayload(text) == [text |-> text, ev |-> "none"]

NewEvent(topic, payload) ==
    [topic |-> topic, payload |-> payload, source |-> NoHat, target |-> NoHat]

with_target(e, h) == [e EXCEPT !.target = h]
with_source(e, h) == [e EXCEPT !.source = h]

(* A parse that takes a payload that is no decision for a Full decision. *)
ParseTriageDecision_lenient(payload) ==
    IF Len(payload.text) = 2 /\ payload.text[1] = "json_triage"
    THEN payload.text[2] ELSE "Full"

(* serde_json::from_str::<TriageDecision>(payload): the decision's mode, or
   NoMode when the payload is not a serialized decision. *)
ParseTriageDecision(payload) ==
    IF Len(payload.text) = 2 /\ payload.text[1] = "json_triage"
    THEN payload.text[2] ELSE NoMode

(* serde_json::from_str::<TestStrategy>(payload): the strategy's tier. *)
ParseTestStrategy(payload) ==
    IF Len(payload.text) = 2 /\ payload.text[1] = "json_strategy"
    THEN payload.text[2] ELSE NoStrategy

TriageJson(mode) == TextPayload(<<"json_triage", mode>>)
StrategyJson(tier) == TextPayload(<<"json_strategy", tier>>)

----------------------------------------------------------------------------
(* EventBus. *)

EmptyBus(hs) ==
    [pending |-> [h \in DOMAIN hs |-> <<>>],
     human_pending |-> <<>>,
     routing_mode |-> NoMode,
     active_strategy |-> NoStrategy,
     observed |-> <<>>]

(* A bus without the triage routing filter. *)
RoutingFiltered_never(mode, id, topic) == FALSE

(* The triage routing filter of publish: the hat is skipped for the topic. *)
RoutingFiltered(mode, id, topic) ==
    \/ mode = "Simple" /\ id = "planner" /\ topic = TTaskStart
    \/ mode = "Full" /\ id = "simple-executor" /\ topic = TTriageDecision

specific_recipients(mode, topic) ==
    {id \in DOMAIN hats :
        /\ ~RoutingFiltered(mode, id, topic)
        /\ has_specific_subscription(hats[id], topic)}

fallback_recipients(mode, topic) ==
    {id \in DOMAIN hats :
        /\ ~RoutingFiltered(mode, id, topic)
        /\ ~has_specific_subscription(hats[id], topic)
        /\ is_subscribed(hats[id], topic)}

(* Routing without the priority of specific subscriptions over "*". *)
Recipients_no_priority(mode, e) ==
    IF starts_with_human(e.topic) THEN {}
    ELSE IF e.target # NoHat
         THEN (IF e.target \in DOMAIN hats THEN {e.target} ELSE {})
    ELSE specific_recipients(mode, e.topic) \cup fallback_recipients(mode, e.topic)

(* Routing that delivers a targeted event to the subscribers of its topic
   as well as to its target. *)
Recipients_target_added(mode, e) ==
    IF starts_with_human(e.topic) THEN {}
    ELSE ({e.target} \cap DOMAIN hats)
         \cup (IF specific_recipients(mode, e.topic) # {}
               THEN specific_recipients(mode, e.topic)
               ELSE fallback_recipients(mode, e.topic))

(* The hat ids publish returns: the hats whose queue receives the event. *)
Recipients(mode, e) ==
    IF starts_with_human(e.topic) THEN {}
    ELSE IF e.target # NoHat
         THEN (IF e.target \in DOMAIN hats THEN {e.target} ELSE {})
    ELSE IF specific_recipients(mode, e.topic) # {}
         THEN specific_recipients(mode, e.topic)
    ELSE fallback_recipients(mode, e.topic)

(* A publish that routes human events like any other event as well. *)
publish_human_routed(b, e) ==
    LET rcpt == IF e.target # NoHat THEN {e.target} \cap DOMAIN hats
                ELSE {id \in DOMAIN hats : is_subscribed(hats[id], e.topic)}
    IN  [b EXCEPT
            !.observed = Append(@, e),
            !.human_pending = IF starts_with_human(e.topic) THEN Append(@, e) ELSE @,
            !.pending = [h \in DOMAIN @ |-> IF h \in rcpt THEN Append(@[h], e) ELSE @[h]]]

(* A publish that notifies the observers after routing, and only of the
   events that reached a hat's queue. *)
publish_route_first(b, e) ==
    LET mode == IF e.topic = TTriageDecision /\ ParseTriageDecision(e.payload) # NoMode
                THEN ParseTriageDecision(e.payload) ELSE b.routing_mode
        strategy == IF e.topic = TTestStrategy /\ ParseTestStrategy(e.payload) # NoStrategy
                    THEN ParseTestStrategy(e.payload) ELSE b.active_strategy
        rcpt == Recipients(mode, e)
    IN  [b EXCEPT
            !.observed = IF rcpt = {} THEN @ ELSE Append(@, e),
            !.routing_mode = mode,
            !.active_strategy = strategy,
            !.human_pending = IF starts_with_human(e.topic) THEN Append(@, e) ELSE @,
            !.pending = [h \in DOMAIN @ |-> IF h \in rcpt THEN Append(@[h], e) ELSE @[h]]]

publish(b, e) ==
    LET mode == IF e.topic = TTriageDecision /\ ParseTriageDecision(e.payload) # NoMode
                THEN ParseTriageDecision(e.payload) ELSE b.routing_mode
        strategy == IF e.topic = TTestStrategy /\ ParseTestStrategy(e.payload) # NoStrategy
                    THEN ParseTestStrategy(e.payload) ELSE b.active_strategy
        rcpt == Recipients(mode, e)
    IN  [b EXCEPT
            !.observed = Append(@, e),
            !.routing_mode = mode,
            !.active_strategy = strategy,
            !.human_pending = IF starts_with_human(e.topic) THEN Append(@, e) ELSE @,
            !.pending = [h \in DOMAIN @ |-> IF h \in rcpt THEN Append(@[h], e) ELSE @[h]]]

RECURSIVE publish_all(_, _)
publish_all(b, events) ==
    IF events = <<>> THEN b
    ELSE publish_all(publish(b, Head(events)), Tail(events))

(* A take that returns the oldest pending event only. *)
take_pending_head(b, id) ==
    IF id \in DOMAIN b.pending /\ b.pending[id] # <<>>
    THEN [b EXCEPT !.pending[id] = Tail(@)] ELSE b

take_pending(b, id) ==
    IF id \in DOMAIN b.pending THEN [b EXCEPT !.pending[id] = <<>>] ELSE b

peek_pending(b, id) == IF id \in DOMAIN b.pending THEN b.pending[id] ELSE <<>>

take_human_pending(b) == [b EXCEPT !.human_pending = <<>>]

has_human_pending(b) == b.human_pending # <<>>

HatsWithPending(b) == {id \in DOMAIN b.pending : b.pending[id] # <<>>}


----------------------------------------------------------------------------
(* Configuration and construction. *)

NoLimit == 0                \* HatConfig.max_activations = None
NoTopic == <<>>             \* HatConfig.default_publishes = None

HatCfg(subs, max, dflt) ==
    [subscriptions |-> subs, max_activations |-> max, default_publishes |-> dflt]

(* Registries of custom hats a configuration may define. *)
SoloRegistry == <<>>

TeamRegistry ==
    [id \in {"planner", "builder", "ralph"} |->
        IF id = "planner"
        THEN HatCfg({TTaskStart, TBuildDone, TBuildBlocked}, NoLimit, NoTopic)
        ELSE IF id = "builder"
        THEN HatCfg({TBuildTask}, 1, NoTopic)
        ELSE HatCfg({TBuildTask}, NoLimit, TBuildDone)]


default_tea == {TTriageDecision, TPlanReady}
default_simple_executor == {TTestStrategy}

(* A constructor that lets a custom hat of the registry replace ralph. *)
ConstructedHats_registry_last(registry) ==
    LET ids == DOMAIN registry \cup {"tea", "simple-executor", "ralph"}
    IN  [id \in ids |->
            IF id \in DOMAIN registry THEN registry[id].subscriptions
            ELSE IF id = "ralph" THEN {TStar}
            ELSE IF id = "tea" THEN default_tea
            ELSE default_simple_executor]

(* The hats the constructor registers on the bus, in its order: the custom
   hats, the built-in tea and simple-executor unless the registry defines
   them, and last the hat ralph subscribed to "*". *)
ConstructedHats(registry) ==
    LET ids == DOMAIN registry \cup {"tea", "simple-executor", "ralph"}
    IN  [id \in ids |->
            IF id = "ralph" THEN {TStar}
            ELSE IF id \in DOMAIN registry THEN registry[id].subscriptions
            ELSE IF id = "tea" THEN default_tea
            ELSE default_simple_executor]

LoopStateNew ==
    [iteration |-> 0,
     consecutive_failures |-> 0,
     consecutive_malformed_events |-> 0,
     cumulative_cost |-> 0,
     hat_activation_counts |-> <<>>,
     exhausted_hats |-> {},
     task_block_counts |-> <<>>,
     abandoned_tasks |-> <<>>,
     abandoned_task_redispatches |-> 0,
     last_hat |-> NoHat,
     is_halted |-> FALSE,
     completion_requested |-> FALSE,
     consecutive_blocked |-> 0,
     last_snapshot_sha |-> "unknown",
     triage_decision |-> NoMode,
     active_strategy |-> NoStrategy]

(* Everything but the configuration and the registered hats. *)
InitRest ==
    /\ bus = EmptyBus(hats)
    /\ state = LoopStateNew
    /\ elapsed = 0
    /\ journal = <<>>
    /\ offset = 0
    /\ recovery_file = <<>>
    /\ stop_file = FALSE
    /\ restart_file = FALSE
    /\ audit_log = <<>>
    /\ prompts = <<>>
    /\ hat = NoHat
    /\ termination = NoReason

----------------------------------------------------------------------------
(* Triage and test strategy. *)

(* A task description, by what the classifiers look at: its length in
   bytes and the keywords it contains. *)
Description(len, simple_kw, full_kw, tier1_kw, tier3_kw, word) ==
    [len |-> len, simple_kw |-> simple_kw, full_kw |-> full_kw,
     tier1_kw |-> tier1_kw, tier3_kw |-> tier3_kw, word |-> word]


analyze_length_only(d) ==
    IF d.full_kw \/ d.len > 200 THEN [mode |-> "Full", confidence |-> 85]
    ELSE IF d.len < 40 THEN [mode |-> "Simple", confidence |-> 80]
    ELSE [mode |-> "Full", confidence |-> 60]

analyze(d) ==
    IF d.simple_kw /\ ~d.full_kw THEN [mode |-> "Simple", confidence |-> 90]
    ELSE IF d.full_kw \/ d.len > 200 THEN [mode |-> "Full", confidence |-> 85]
    ELSE IF d.len < 40 THEN [mode |-> "Simple", confidence |-> 80]
    ELSE [mode |-> "Full", confidence |-> 60]

design_strategy(d) ==
    LET matrix_tier == IF d.tier1_kw THEN "Tier1"
                       ELSE IF d.tier3_kw THEN "Tier3" ELSE "Tier2"
    IN  IF d.word \in {"simple", "minor"} THEN "Tier3"
        ELSE IF d.word \in {"complex", "refactor"} THEN "Tier1"
        ELSE matrix_tier

(* TestStrategy::for_tier *)
min_coverage(tier) == IF tier = "Tier1" THEN 95 ELSE IF tier = "Tier2" THEN 80 ELSE 0

mandatory_categories(tier) ==
    IF tier = "Tier1" THEN {"unit", "integration", "lint", "security"}
    ELSE IF tier = "Tier2" THEN {"unit", "lint"}
    ELSE {"smoke"}

----------------------------------------------------------------------------
(* Recovery queue and audit log. *)

(* A recovery check that never finds the sentinel blocked. *)
is_blocked_ignored(file) == FALSE

is_blocked(file) == file # <<>>

(* fs::write replaces the contents of the file by the new entry. *)
record_failure(file, task_id, reason, last_sha) ==
    << [task_id |-> task_id, reason |-> reason, last_sha |-> last_sha] >>

log_event(log, kind) == Append(log, kind)
log_halt(log) == log_event(log, "LOOP_HALTED")

----------------------------------------------------------------------------
(* Evidence parsing. *)

(* A strip that removes CSI sequences only and leaves every other escape
   byte in place. *)
RECURSIVE strip_csi_only_from(_, _, _)
strip_csi_only_from(bytes, i, mode) ==
    IF i > Len(bytes) THEN <<>>
    ELSE IF mode = "csi"
    THEN strip_csi_only_from(bytes, i + 1, IF bytes[i] \in 64..126 THEN "text" ELSE "csi")
    ELSE IF bytes[i] = ESC /\ i < Len(bytes) /\ bytes[i + 1] = 91
    THEN strip_csi_only_from(bytes, i + 2, "csi")
    ELSE <<bytes[i]>> \o strip_csi_only_from(bytes, i + 1, "text")

strip_ansi_csi_only(s) == strip_csi_only_from(s, 1, "text")

(* The loop of strip_ansi from index i (counted from 1) over the bytes of
   the string: mode "text" is the outer loop, "csi" the loop that skips to
   the final byte of a CSI sequence (0x40..0x7E), "osc" the loop that skips
   to the BEL or the ST (ESC \) that ends an OSC sequence.  91 is '[', 93 is
   ']', 92 is '\', 7 is BEL. *)
RECURSIVE strip_from(_, _, _)
strip_from(bytes, i, mode) ==
    IF i > Len(bytes) THEN <<>>
    ELSE IF mode = "csi"
    THEN strip_from(bytes, i + 1, IF bytes[i] \in 64..126 THEN "text" ELSE "csi")
    ELSE IF mode = "osc"
    THEN IF bytes[i] = 7 THEN strip_from(bytes, i + 1, "text")
         ELSE IF bytes[i] = ESC /\ i + 1 <= Len(bytes) /\ bytes[i + 1] = 92
         THEN strip_from(bytes, i + 2, "text")
         ELSE strip_from(bytes, i + 1, "osc")
    ELSE IF bytes[i] = ESC
    THEN IF i + 1 > Len(bytes) THEN <<>>
         ELSE IF bytes[i + 1] = 91 THEN strip_from(bytes, i + 2, "csi")
         ELSE IF bytes[i + 1] = 93 THEN strip_from(bytes, i + 2, "osc")
         ELSE strip_from(bytes, i + 2, "text")
    ELSE <<bytes[i]>> \o strip_from(bytes, i + 1, "text")

(* String::from_utf8_lossy over one-, two- and three-byte sequences: a
   well-formed sequence is kept, a maximal ill-formed prefix is replaced by
   U+FFFD, the bytes EF BF BD. *)
RECURSIVE from_utf8_lossy(_, _)
from_utf8_lossy(bytes, i) ==
    LET cont(k) == k <= Len(bytes) /\ bytes[k] \in 128..191
    IN  IF i > Len(bytes) THEN <<>>
        ELSE IF bytes[i] < 128 THEN <<bytes[i]>> \o from_utf8_lossy(bytes, i + 1)
        ELSE IF bytes[i] \in 194..223 /\ cont(i + 1)
        THEN <<bytes[i], bytes[i + 1]>> \o from_utf8_lossy(bytes, i + 2)
        ELSE IF bytes[i] \in 225..239 \ {237} /\ cont(i + 1) /\ cont(i + 2)
        THEN <<bytes[i], bytes[i + 1], bytes[i + 2]>> \o from_utf8_lossy(bytes, i + 3)
        ELSE IF bytes[i] \in 225..239 \ {237} /\ cont(i + 1)
        THEN <<239, 191, 189>> \o from_utf8_lossy(bytes, i + 2)
        ELSE <<239, 191, 189>> \o from_utf8_lossy(bytes, i + 1)

(* strip_ansi over the bytes of a string. *)
strip_ansi(s) == from_utf8_lossy(strip_from(s, 1, "text"), 1)

(* str::contains for a pattern given by its bytes. *)
contains(s, pattern) ==
    \E k \in 0..(Len(s) - Len(pattern)) : SubSeq(s, k + 1, k + Len(pattern)) = pattern

(* EventParser::parse_backpressure_evidence over the bytes of a payload, for
   the tests check: whether the stripped payload names the check
   ("tests:") and whether it reports it passed ("tests: pass").  The other
   checks are searched for in the same stripped payload. *)
parse_backpressure_evidence_bytes(payload) ==
    LET clean_payload == strip_ansi(payload)
    IN  [some |-> contains(clean_payload, <<116, 101, 115, 116, 115, 58>>),
         tests_passed |-> contains(clean_payload,
                             <<116, 101, 115, 116, 115, 58, 32, 112, 97, 115, 115>>)]

EvidenceKinds == {"pass", "tests_fail", "lint_fail", "audit_fail",
                  "coverage_fail", "complexity_fail"}

(* EventParser::parse_backpressure_evidence: some is FALSE when the payload
   names no check; otherwise the fields say what each check line says. *)
parse_backpressure_evidence(payload) ==
    [some |-> payload.ev \in EvidenceKinds,
     tests_passed |-> payload.ev \in EvidenceKinds \ {"tests_fail"},
     lint_passed |-> payload.ev \in EvidenceKinds \ {"lint_fail"},
     typecheck_passed |-> payload.ev \in EvidenceKinds,
     audit_passed |-> payload.ev \in EvidenceKinds \ {"audit_fail"},
     coverage_passed |-> payload.ev \in EvidenceKinds \ {"coverage_fail"},
     complexity_score |-> IF payload.ev = "complexity_fail" THEN 12 ELSE 7,
     duplication_passed |-> payload.ev \in EvidenceKinds,
     performance_regression |-> FALSE,
     specs_failed |-> FALSE]

(* EventParser::parse_review_evidence *)
parse_review_evidence(payload) ==
    [some |-> payload.ev \in {"review_pass", "review_fail"},
     tests_passed |-> payload.ev = "review_pass",
     build_passed |-> payload.ev = "review_pass"]

is_verified(evidence) == evidence.tests_passed /\ evidence.build_passed

(* EventParser::parse_quality_report with QualityReport::meets_thresholds *)
parse_quality_report(payload) ==
    [some |-> payload.ev \in {"quality_pass", "quality_fail"},
     meets_thresholds |-> payload.ev = "quality_pass"]

all_passed(evidence) ==
    /\ evidence.tests_passed
    /\ evidence.lint_passed
    /\ evidence.typecheck_passed
    /\ evidence.audit_passed
    /\ evidence.coverage_passed
    /\ evidence.complexity_score <= ComplexityThreshold
    /\ evidence.duplication_passed
    /\ ~evidence.performance_regression
    /\ ~evidence.specs_failed

(* The errors of the TEA strategy gate for a build.done, in the order the
   handler pushes them. *)
strategy_errors(strategy, evidence) ==
    IF strategy = NoStrategy THEN <<>>
    ELSE (IF ~evidence.coverage_passed /\ min_coverage(strategy) > 0
          THEN <<"Coverage check failed">> ELSE <<>>)
      \o (IF "unit" \in mandatory_categories(strategy) /\ ~evidence.tests_passed
          THEN <<"Mandatory unit tests failed">> ELSE <<>>)
      \o (IF "lint" \in mandatory_categories(strategy) /\ ~evidence.lint_passed
          THEN <<"Mandatory linting failed">> ELSE <<>>)
      \o (IF "security" \in mandatory_categories(strategy) /\ ~evidence.audit_passed
          THEN <<"Mandatory security audit failed">> ELSE <<>>)

(* First line of the payload, trimmed; "unknown" for an empty payload. *)
extract_task_id(payload) ==
    IF payload.text = <<>> THEN <<"unknown">> ELSE payload.text

----------------------------------------------------------------------------
(* Journal and event reader. *)

MalformedLine == [malformed |-> TRUE, topic |-> <<>>, payload |-> EmptyPayload]
EventLine(topic, payload) == [malformed |-> FALSE, topic |-> topic, payload |-> payload]

IsMalformed(line) == line.malformed
IsEvent(line) == ~line.malformed

(* EventReader::read_new_events: the lines after the reader's position,
   split into parsed events and malformed lines; the position moves to the
   end of the file. *)
read_new_events(jnl, pos) ==
    LET lines == SubSeq(jnl, pos + 1, Len(jnl))
    IN  [events |-> SelectSeq(lines, IsEvent),
         malformed |-> SelectSeq(lines, IsMalformed),
         position |-> Len(jnl)]

----------------------------------------------------------------------------
(* EventLoop::process_events_from_jsonl *)

Bump(f, k) == IF k \in DOMAIN f THEN [f EXCEPT ![k] = @ + 1] ELSE f @@ (k :> 1)
CountOf(f, k) == IF k \in DOMAIN f THEN f[k] ELSE 0

Contains(seq, x) == \E i \in 1..Len(seq) : seq[i] = x

MalformedEvent == NewEvent(TEventMalformed, TextPayload(<<"Line">>))

(* A completion check that accepts the event at any position. *)
is_last_event_anywhere(index, total) == index < total

(* The position test of the completion event: index + 1 == total_events. *)
is_last_event(index, total) == index + 1 = total

(* A validation that lets every event through as it is. *)
ValidateEvent_ungated(acc, event, index, total) ==
    [acc EXCEPT !.validated = Append(@, NewEvent(event.topic, event.payload))]

(* One turn of the validation loop for the event at position index of
   total; acc carries the validated events and what the loop mutates. *)
ValidateEvent(acc, event, index, total) ==
    LET payload == event.payload
        pass == [acc EXCEPT !.validated = Append(@, NewEvent(event.topic, payload))]
        block(topic, msg) == [acc EXCEPT !.validated = Append(@, NewEvent(topic, TextPayload(msg)))]
        halt(task_id, msg) ==
            [acc EXCEPT
                !.rf = record_failure(@, task_id, msg, acc.st.last_snapshot_sha),
                !.st.is_halted = TRUE,
                !.al = log_halt(@),
                !.validated = Append(@, NewEvent(TBuildBlocked, TextPayload(msg)))]
        evidence == parse_backpressure_evidence(payload)
        errors == strategy_errors(acc.st.active_strategy, evidence)
    IN  IF event.topic = TCompletion
        THEN (IF is_last_event(index, total)
              THEN [acc EXCEPT !.st.completion_requested = TRUE]
              ELSE acc)
        ELSE IF event.topic = TBuildDone
        THEN (IF evidence.some
              THEN (IF all_passed(evidence) /\ errors = <<>>
                    THEN pass
                    ELSE halt(extract_task_id(payload),
                              IF errors # <<>>
                              THEN <<"TEA Strategy Gate Violation:">> \o errors
                              ELSE <<"Backpressure checks failed.">>))
              ELSE halt(<<"unknown">>, <<"Missing backpressure evidence.">>))
        ELSE IF event.topic = TReviewDone
        THEN (IF parse_review_evidence(payload).some
              THEN (IF is_verified(parse_review_evidence(payload))
                    THEN pass
                    ELSE block(<<"review", "blocked">>, <<"Review verification failed.">>))
              ELSE block(<<"review", "blocked">>, <<"Missing verification evidence.">>))
        ELSE IF event.topic = <<"verify", "passed">>
        THEN (IF parse_quality_report(payload).some
              THEN (IF parse_quality_report(payload).meets_thresholds
                    THEN pass
                    ELSE block(<<"verify", "failed">>, <<"Quality thresholds failed.">>))
              ELSE block(<<"verify", "failed">>, <<"Missing quality report.">>))
        ELSE pass

RECURSIVE ValidateEvents(_, _, _)
ValidateEvents(acc, events, index) ==
    IF index >= Len(events) THEN acc
    ELSE ValidateEvents(ValidateEvent(acc, events[index + 1], index, Len(events)),
                        events, index + 1)

AbandonedEvent(task_id) ==
    NewEvent(TBuildAbandoned, TextPayload(<<"Task">> \o task_id \o <<"abandoned">>))

(* A thrashing loop that does not look at the abandoned tasks. *)
TrackBlocked_forgetful(acc, blocked_event) ==
    LET task_id == extract_task_id(blocked_event.payload)
        counts == Bump(acc.st.task_block_counts, task_id)
    IN  IF counts[task_id] >= BlockLimit
        THEN [acc EXCEPT
                !.st.task_block_counts = counts,
                !.st.abandoned_tasks = Append(@, task_id),
                !.b = publish(@, AbandonedEvent(task_id))]
        ELSE [acc EXCEPT !.st.task_block_counts = counts]

(* One turn of the thrashing loop for a build.blocked event. *)
TrackBlocked(acc, blocked_event) ==
    LET task_id == extract_task_id(blocked_event.payload)
        counts == Bump(acc.st.task_block_counts, task_id)
    IN  IF counts[task_id] >= BlockLimit /\ ~Contains(acc.st.abandoned_tasks, task_id)
        THEN [acc EXCEPT
                !.st.task_block_counts = counts,
                !.st.abandoned_tasks = Append(@, task_id),
                !.b = publish(@, AbandonedEvent(task_id))]
        ELSE [acc EXCEPT !.st.task_block_counts = counts]

RECURSIVE TrackAllBlocked(_, _)
TrackAllBlocked(acc, blocked_events) ==
    IF blocked_events = <<>> THEN acc
    ELSE TrackAllBlocked(TrackBlocked(acc, Head(blocked_events)), Tail(blocked_events))

IsBuildBlocked(e) == e.topic = TBuildBlocked

(* A malformed-line counter that no well-formed event resets. *)
count_malformed_no_reset(st, result) ==
    [st EXCEPT !.consecutive_malformed_events = @ + Len(result.malformed)]

(* The counter of consecutive malformed events after the malformed lines
   were counted and the reset for parsed events was applied. *)
count_malformed(st, result) ==
    [st EXCEPT !.consecutive_malformed_events =
                  IF result.events # <<>> THEN 0 ELSE @ + Len(result.malformed)]

(* A handler that publishes the event.malformed events after the validated
   events. *)
process_events_from_jsonl_malformed_last(eng, result) ==
    LET malformed_events == [i \in 1..Len(result.malformed) |-> MalformedEvent]
        st1 == count_malformed(eng.st, result)
        v == ValidateEvents([validated |-> <<>>, st |-> st1, rf |-> eng.rf, al |-> eng.al],
                            result.events, 0)
        blocked_events == SelectSeq(v.validated, IsBuildBlocked)
        t == TrackAllBlocked([st |-> v.st, b |-> eng.b], blocked_events)
        st2 == [t.st EXCEPT
                  !.consecutive_blocked = IF blocked_events # <<>> THEN @ + 1 ELSE 0]
    IN  IF result.events = <<>> /\ result.malformed = <<>>
        THEN eng
        ELSE [st |-> st2, b |-> publish_all(publish_all(t.b, v.validated), malformed_events),
              rf |-> v.rf, al |-> v.al]

(* The handler as a whole: the engine state it leaves for the lines read. *)
process_events_from_jsonl(eng, result) ==
    LET malformed_events == [i \in 1..Len(result.malformed) |-> MalformedEvent]
        st1 == count_malformed(eng.st, result)
        v == ValidateEvents([validated |-> <<>>, st |-> st1, rf |-> eng.rf, al |-> eng.al],
                            result.events, 0)
        blocked_events == SelectSeq(v.validated, IsBuildBlocked)
        t == TrackAllBlocked([st |-> v.st, b |-> publish_all(eng.b, malformed_events)],
                             blocked_events)
        st2 == [t.st EXCEPT
                  !.consecutive_blocked = IF blocked_events # <<>> THEN @ + 1 ELSE 0]
    IN  IF result.events = <<>> /\ result.malformed = <<>>
        THEN eng
        ELSE [st |-> st2, b |-> publish_all(t.b, v.validated), rf |-> v.rf, al |-> v.al]

----------------------------------------------------------------------------
(* Termination policy. *)

(* A check that looks at the sentinels before the counters. *)
check_termination_sentinels_first(st, secs, stop, restart) ==
    IF stop THEN "stopped"
    ELSE IF restart THEN "restart_requested"
    ELSE IF st.iteration >= CfgMaxIterations THEN "max_iterations"
    ELSE IF secs >= CfgMaxRuntimeSeconds THEN "max_runtime"
    ELSE IF st.cumulative_cost >= CfgMaxCost THEN "max_cost"
    ELSE IF st.consecutive_failures >= CfgMaxConsecutiveFailures THEN "consecutive_failures"
    ELSE IF st.abandoned_task_redispatches >= ThrashingLimit THEN "loop_thrashing"
    ELSE IF st.consecutive_malformed_events >= MalformedLimit THEN "validation_failure"
    ELSE NoReason

(* EventLoop::check_termination: the reason returned for a loop state, the
   wall clock and the two sentinel files. *)
check_termination(st, secs, stop, restart) ==
    IF st.iteration >= CfgMaxIterations THEN "max_iterations"
    ELSE IF secs >= CfgMaxRuntimeSeconds THEN "max_runtime"
    ELSE IF st.cumulative_cost >= CfgMaxCost THEN "max_cost"
    ELSE IF st.consecutive_failures >= CfgMaxConsecutiveFailures THEN "consecutive_failures"
    ELSE IF st.abandoned_task_redispatches >= ThrashingLimit THEN "loop_thrashing"
    ELSE IF st.consecutive_malformed_events >= MalformedLimit THEN "validation_failure"
    ELSE IF stop THEN "stopped"
    ELSE IF restart THEN "restart_requested"
    ELSE NoReason

(* The stop sentinel after check_termination: removed by the check that
   reaches it and finds it. *)
stop_file_after(st, secs, stop, restart) ==
    IF check_termination(st, secs, stop, restart) = "stopped" THEN FALSE ELSE stop

(* A check that removes the restart sentinel it finds, as it does the stop
   sentinel. *)
restart_file_consumed(st, secs, stop, restart) ==
    IF check_termination(st, secs, stop, restart) = "restart_requested" THEN FALSE ELSE restart

(* The restart sentinel after check_termination: the check only tests it. *)
restart_file_after(st, secs, stop, restart) == restart

exit_code(reason) ==
    IF reason = "completed" THEN 0
    ELSE IF reason \in {"consecutive_failures", "loop_thrashing",
                        "validation_failure", "stopped"} THEN 1
    ELSE IF reason \in {"max_iterations", "max_runtime", "max_cost"} THEN 2
    ELSE IF reason = "interrupted" THEN 130
    ELSE 3

ResumeEvent(text) == NewEvent(TTaskResume, TextPayload(<<text>>))

(* A completion check that ignores persistent mode. *)
check_completion_event_terminating(st, b) ==
    IF ~st.completion_requested
    THEN [reason |-> NoReason, st |-> st, b |-> b]
    ELSE [reason |-> "completed",
          st |-> [st EXCEPT !.completion_requested = FALSE],
          b |-> b]

(* EventLoop::check_completion_event: the reason returned, and the loop
   state and bus it leaves. *)
check_completion_event(st, b) ==
    IF ~st.completion_requested
    THEN [reason |-> NoReason, st |-> st, b |-> b]
    ELSE IF cfg.persistent
    THEN [reason |-> NoReason,
          st |-> [st EXCEPT !.completion_requested = FALSE],
          b |-> publish(b, ResumeEvent("Persistent mode: loop staying alive"))]
    ELSE [reason |-> "completed",
          st |-> [st EXCEPT !.completion_requested = FALSE],
          b |-> b]

----------------------------------------------------------------------------
(* Initialization, hat selection and stall recovery. *)

(* An initialization that publishes the task.start before the decision and
   the strategy. *)
initialize_with_topic_start_first(st, b, log, description, sha) ==
    LET decision == analyze(description)
        strategy == design_strategy(description)
        b1 == publish(b, NewEvent(TTaskStart, TextPayload(<<"objective">>)))
        b2 == publish(b1, NewEvent(TTriageDecision, TriageJson(decision.mode)))
        b3 == publish(b2, NewEvent(TTestStrategy, StrategyJson(strategy)))
    IN  [st |-> [st EXCEPT !.last_snapshot_sha = sha,
                           !.triage_decision = decision.mode,
                           !.active_strategy = strategy],
         b |-> b3,
         al |-> log_event(log_event(log, "TRIAGE_DECISION"), "TEA_STRATEGY")]

(* EventLoop::initialize_with_topic for the topic task.start. *)
initialize_with_topic(st, b, log, description, sha) ==
    LET decision == analyze(description)
        strategy == design_strategy(description)
        b1 == publish(b, NewEvent(TTriageDecision, TriageJson(decision.mode)))
        b2 == publish(b1, NewEvent(TTestStrategy, StrategyJson(strategy)))
        b3 == publish(b2, NewEvent(TTaskStart, TextPayload(<<"objective">>)))
    IN  [st |-> [st EXCEPT !.last_snapshot_sha = sha,
                           !.triage_decision = decision.mode,
                           !.active_strategy = strategy],
         b |-> b3,
         al |-> log_event(log_event(log, "TRIAGE_DECISION"), "TEA_STRATEGY")]

(* EventLoop::next_hat: the hats it may return; the empty set stands for
   None.  The hat with pending events is found by iterating a HashMap, so
   any hat with pending events may be the one found. *)
next_hat(b) ==
    IF HatsWithPending(b) = {}
    THEN (IF has_human_pending(b) THEN {"ralph"} ELSE {})
    ELSE IF DOMAIN cfg.registry = {} THEN HatsWithPending(b)
    ELSE {"ralph"}

has_pending_events(b) == HatsWithPending(b) # {} \/ has_human_pending(b)

(* A stall recovery that never targets the event. *)
inject_fallback_event_broadcast(st, b) ==
    publish(b, ResumeEvent("RECOVERY: Previous iteration did not publish an event."))

(* EventLoop::inject_fallback_event *)
inject_fallback_event(st, b) ==
    LET fallback_event == ResumeEvent("RECOVERY: Previous iteration did not publish an event.")
    IN  IF st.last_hat # NoHat /\ st.last_hat # "ralph"
        THEN publish(b, with_target(fallback_event, st.last_hat))
        ELSE publish(b, fallback_event)

----------------------------------------------------------------------------
(* Prompt composition. *)

(* Hat ids in lexicographic order, the order build_prompt and the registry
   scan them in. *)
SortedHatIds == <<"builder", "planner", "ralph", "simple-executor", "tea">>

IsInRegistry(id) == id \in DOMAIN cfg.registry

(* HatRegistry::get_for_topic: the first hat of the registry subscribed to
   the topic, NoHat when there is none. *)
get_for_topic(topic) ==
    LET ids == SelectSeq(SortedHatIds, IsInRegistry)
        hit(id) == is_subscribed(cfg.registry[id].subscriptions, topic)
    IN  IF \E k \in 1..Len(ids) : hit(ids[k])
        THEN ids[CHOOSE k \in 1..Len(ids) : hit(ids[k]) /\ \A j \in 1..(k - 1) : ~hit(ids[j])]
        ELSE NoHat

RECURSIVE determine_active_hat_ids(_, _)
determine_active_hat_ids(events, active) ==
    IF events = <<>> THEN active
    ELSE LET id == get_for_topic(Head(events).topic)
         IN  determine_active_hat_ids(Tail(events),
                 IF id # NoHat /\ ~Contains(active, id) THEN Append(active, id) ELSE active)

RECURSIVE record_hat_activations(_, _)
record_hat_activations(counts, active) ==
    IF active = <<>> THEN counts
    ELSE record_hat_activations(Bump(counts, Head(active)), Tail(active))

ExhaustedEvent(id) == NewEvent(<<id, "exhausted">>, TextPayload(<<"Hat", id, "exhausted.">>))

(* An exhaustion check that emits the exhausted event at every drop. *)
check_hat_exhaustion_flooding(st, id) ==
    IF ~IsInRegistry(id) \/ cfg.registry[id].max_activations = NoLimit
    THEN [drop |-> FALSE, emit |-> FALSE, exhausted |-> st.exhausted_hats]
    ELSE IF CountOf(st.hat_activation_counts, id) < cfg.registry[id].max_activations
    THEN [drop |-> FALSE, emit |-> FALSE, exhausted |-> st.exhausted_hats]
    ELSE [drop |-> TRUE, emit |-> TRUE, exhausted |-> st.exhausted_hats \cup {id}]

(* EventLoop::check_hat_exhaustion: whether the pending events are dropped,
   whether the exhausted event is emitted, and the exhausted set left. *)
check_hat_exhaustion(st, id) ==
    IF ~IsInRegistry(id) \/ cfg.registry[id].max_activations = NoLimit
    THEN [drop |-> FALSE, emit |-> FALSE, exhausted |-> st.exhausted_hats]
    ELSE IF CountOf(st.hat_activation_counts, id) < cfg.registry[id].max_activations
    THEN [drop |-> FALSE, emit |-> FALSE, exhausted |-> st.exhausted_hats]
    ELSE [drop |-> TRUE, emit |-> id \notin st.exhausted_hats,
          exhausted |-> st.exhausted_hats \cup {id}]

(* One turn of the loop of build_prompt over the sorted hat ids. *)
CollectPending(acc, id) ==
    LET pending == acc.b.pending[id]
        x == check_hat_exhaustion(acc.st, id)
        taken == [acc EXCEPT !.b = take_pending(@, id), !.st.exhausted_hats = x.exhausted]
    IN  IF pending = <<>> THEN acc
        ELSE IF x.drop
        THEN (IF x.emit
              THEN [taken EXCEPT !.all_events = Append(@, ExhaustedEvent(id)),
                                 !.system_events = Append(@, ExhaustedEvent(id))]
              ELSE taken)
        ELSE [taken EXCEPT !.all_events = @ \o pending]

RECURSIVE CollectAllPending(_, _)
CollectAllPending(acc, ids) ==
    IF ids = <<>> THEN acc
    ELSE CollectAllPending(CollectPending(acc, Head(ids)), Tail(ids))

IsRegularEvent(e) == e.topic # THumanGuidance

Prompt(id, events) == [some |-> TRUE, hat |-> id, events |-> events]

(* EventLoop::build_prompt: the prompt returned (some is FALSE for None)
   and the bus and loop state it leaves. *)
build_prompt(st, b, hat_id) ==
    IF hat_id = "ralph" /\ DOMAIN cfg.registry = {}
    THEN LET events == b.pending[hat_id] \o b.human_pending
         IN  [prompt |-> Prompt(hat_id, SelectSeq(events, IsRegularEvent)),
              b |-> take_human_pending(take_pending(b, hat_id)),
              st |-> st]
    ELSE IF hat_id = "ralph"
    THEN LET c == CollectAllPending(
                      [b |-> b, st |-> st, all_events |-> <<>>, system_events |-> <<>>],
                      SelectSeq(SortedHatIds, LAMBDA id : id \in DOMAIN hats))
             all_events == c.all_events \o c.b.human_pending
             regular_events == SelectSeq(all_events, IsRegularEvent)
             active == determine_active_hat_ids(regular_events, <<>>)
         IN  [prompt |-> Prompt(hat_id, regular_events),
              b |-> publish_all(take_human_pending(c.b), c.system_events),
              st |-> [c.st EXCEPT !.hat_activation_counts = record_hat_activations(@, active)]]
    ELSE [prompt |-> IF IsInRegistry(hat_id)
                     THEN Prompt(hat_id, b.pending[hat_id])
                     ELSE [some |-> FALSE, hat |-> NoHat, events |-> <<>>],
          b |-> take_pending(b, hat_id),
          st |-> st]

(* A check that injects the default event whatever the hat wrote. *)
check_default_publishes_unconditional(b, hat_id, events_after) ==
    IF IsInRegistry(hat_id) /\ cfg.registry[hat_id].default_publishes # NoTopic
    THEN publish(b, with_source(NewEvent(cfg.registry[hat_id].default_publishes, EmptyPayload),
                                hat_id))
    ELSE b

(* EventLoop::check_default_publishes: the bus after the call, given the
   number of events the reader found. *)
check_default_publishes(b, hat_id, events_after) ==
    IF /\ events_after = 0
       /\ IsInRegistry(hat_id)
       /\ cfg.registry[hat_id].default_publishes # NoTopic
    THEN publish(b, with_source(NewEvent(cfg.registry[hat_id].default_publishes, EmptyPayload),
                                hat_id))
    ELSE b

(* An output handler that never resets the failure counter. *)
process_output_sticky_failures(st, hat_id, success) ==
    [st EXCEPT !.iteration = @ + 1,
               !.last_hat = hat_id,
               !.consecutive_failures = IF success THEN @ ELSE @ + 1]

(* EventLoop::process_output up to its termination check: the loop state
   it leaves. *)
process_output(st, hat_id, success) ==
    [st EXCEPT !.iteration = @ + 1,
               !.last_hat = hat_id,
               !.consecutive_failures = IF success THEN 0 ELSE @ + 1]

----------------------------------------------------------------------------
(* The bus on its own: hats are registered, then events are published and
   queues are taken through the bus's public operations. *)

BusEvents ==
    { with_target(NewEvent(t, EmptyPayload), g) : 
          t \in {TTaskStart, TBuildDone, TTriageDecision, THumanGuidance, TReviewDone},
          g \in {NoHat, "planner", "nobody"} }
    \cup { NewEvent(TTriageDecision, TriageJson(m)) : m \in {"Simple", "Full"} }
    \cup { NewEvent(TTestStrategy, StrategyJson("Tier1")) }

InitBus ==
    /\ cfg = [registry |-> SoloRegistry, persistent |-> FALSE]
    /\ hats \in
       { [id \in {"ralph", "planner", "simple-executor"} |->
             IF id = "ralph" THEN {TStar}
             ELSE IF id = "planner" THEN {TTaskStart, <<"build", "*">>}
             ELSE {TTriageDecision}],
         [id \in {"ralph", "planner"} |->
             IF id = "ralph" THEN {TStar} ELSE {TStar, TBuildDone, <<"human", "*">>}] }
    /\ InitRest
    /\ pc = "bus"

EngineUnchanged ==
    UNCHANGED <<cfg, hats, state, elapsed, journal, offset, recovery_file,
                stop_file, restart_file, audit_log, prompts, pc, hat, termination>>

BusPublish(e) ==
    /\ pc = "bus"
    /\ Len(bus.observed) < MaxPublished
    /\ bus' = publish(bus, e)
    /\ EngineUnchanged

BusTakePending(id) ==
    /\ pc = "bus"
    /\ bus.pending[id] # <<>>
    /\ bus' = take_pending(bus, id)
    /\ EngineUnchanged

BusTakeHumanPending ==
    /\ pc = "bus"
    /\ has_human_pending(bus)
    /\ bus' = take_human_pending(bus)
    /\ EngineUnchanged

NextBus ==
    \/ \E e \in BusEvents : BusPublish(e)
    \/ \E id \in DOMAIN hats : BusTakePending(id)
    \/ BusTakeHumanPending

SpecBus == InitBus /\ [][NextBus]_vars

(* The bus with its public setters: EventBus::set_routing_mode and
   EventBus::set_active_strategy called by a client of the bus, next to the
   operations above. *)
SetRoutingMode(mode) ==
    /\ pc = "bus"
    /\ bus' = [bus EXCEPT !.routing_mode = mode]
    /\ EngineUnchanged

SetActiveStrategy(strategy) ==
    /\ pc = "bus"
    /\ bus' = [bus EXCEPT !.active_strategy = strategy]
    /\ EngineUnchanged

NextBusApi ==
    \/ \E e \in BusEvents : Len(bus.observed) < MaxApiPublished /\ BusPublish(e)
    \/ \E id \in DOMAIN hats : BusTakePending(id)
    \/ BusTakeHumanPending
    \/ \E mode \in {"Simple", "Full"} : SetRoutingMode(mode)
    \/ \E strategy \in {"Tier1", "Tier3"} : SetActiveStrategy(strategy)

SpecBusApi == InitBus /\ [][NextBusApi]_vars

----------------------------------------------------------------------------
(* The iteration engine: one cycle blocks on recovery, ingests the journal,
   checks for completion, selects a hat, composes its prompt, runs the
   agent and processes its output, which ends with the termination check. *)

(* "Fix typo in README.md" and "Implement OAuth2 authentication". *)
Descriptions ==
    { Description(21, TRUE, FALSE, FALSE, TRUE, "none"),
      Description(33, FALSE, TRUE, TRUE, FALSE, "none") }

T1Payload(ev) == [text |-> <<"T1">>, ev |-> ev]

JournalLines ==
    { MalformedLine,
      EventLine(TCompletion, EmptyPayload),
      EventLine(TBuildDone, T1Payload("pass")),
      EventLine(TBuildDone, T1Payload("none")),
      EventLine(TBuildBlocked, T1Payload("none")) }

Init ==
    /\ cfg \in [registry : {SoloRegistry, TeamRegistry}, persistent : BOOLEAN]
    /\ hats = ConstructedHats(cfg.registry)
    /\ InitRest
    /\ pc = "init"

Files == <<recovery_file, stop_file, restart_file>>
Reader == <<journal, offset>>

(* EventLoop::initialize *)
Initialize(description, sha) ==
    /\ pc = "init"
    /\ pc' = "block"
    /\ IF is_blocked(recovery_file)
       THEN UNCHANGED <<state, bus, audit_log>>
       ELSE LET r == initialize_with_topic(state, bus, audit_log, description, sha)
            IN  state' = r.st /\ bus' = r.b /\ audit_log' = r.al
    /\ UNCHANGED <<cfg, hats, elapsed, Reader, Files, prompts, hat, termination>>

(* EventLoop::block_on_recovery_queue, up to its polling loop. *)
BlockOnRecovery ==
    /\ pc = "block"
    /\ IF is_blocked(recovery_file)
       THEN /\ state' = [state EXCEPT !.is_halted = TRUE]
            /\ audit_log' = log_halt(audit_log)
            /\ pc' = "halted"
       ELSE /\ UNCHANGED <<state, audit_log>>
            /\ pc' = "ingest"
    /\ UNCHANGED <<cfg, hats, bus, elapsed, Reader, Files, prompts, hat, termination>>

(* The polling loop of block_on_recovery_queue finds the sentinel clear. *)
ResumeFromRecovery ==
    /\ pc = "halted"
    /\ ~is_blocked(recovery_file)
    /\ state' = [state EXCEPT !.is_halted = FALSE]
    /\ audit_log' = log_event(audit_log, "LOOP_RESUMED")
    /\ pc' = "ingest"
    /\ UNCHANGED <<cfg, hats, bus, elapsed, Reader, Files, prompts, hat, termination>>

(* EventLoop::process_events_from_jsonl on what the reader returns. *)
IngestEffect ==
    \E result \in {read_new_events(journal, offset)} :
    \E r \in {process_events_from_jsonl(
                 [st |-> state, b |-> bus, rf |-> recovery_file, al |-> audit_log], result)} :
        /\ offset' = result.position
        /\ state' = r.st
        /\ bus' = r.b
        /\ recovery_file' = r.rf
        /\ audit_log' = r.al

Ingest ==
    /\ pc = "ingest"
    /\ IngestEffect
    /\ pc' = "complete"
    /\ UNCHANGED <<cfg, hats, elapsed, journal, stop_file, restart_file, prompts, hat,
                   termination>>

(* EventLoop::publish_terminate_event, when the check returned a reason. *)
Terminated(b, reason) ==
    IF reason = NoReason THEN b
    ELSE publish(b, NewEvent(TLoopTerminate, TextPayload(<<"## Reason", reason>>)))

CheckCompletion ==
    /\ pc = "complete"
    /\ LET r == check_completion_event(state, bus)
       IN  /\ state' = r.st
           /\ bus' = Terminated(r.b, r.reason)
           /\ termination' = r.reason
           /\ pc' = IF r.reason = NoReason THEN "select" ELSE "done"
    /\ UNCHANGED <<cfg, hats, elapsed, Reader, Files, audit_log, prompts, hat>>

(* Stall recovery: nothing is pending, a task.resume is injected. *)
InjectFallback ==
    /\ pc = "select"
    /\ ~has_pending_events(bus)
    /\ bus' = inject_fallback_event(state, bus)
    /\ UNCHANGED <<cfg, hats, state, elapsed, Reader, Files, audit_log, prompts, pc, hat,
                   termination>>

SelectHat(id) ==
    /\ pc = "select"
    /\ id \in next_hat(bus)
    /\ hat' = id
    /\ pc' = "prompt"
    /\ UNCHANGED <<cfg, hats, bus, state, elapsed, Reader, Files, audit_log, prompts,
                   termination>>

BuildPrompt ==
    /\ pc = "prompt"
    /\ \E r \in {build_prompt(state, bus, hat)} :
           /\ state' = r.st
           /\ bus' = r.b
           /\ prompts' = IF r.prompt.some THEN Append(prompts, r.prompt) ELSE prompts
           /\ pc' = IF r.prompt.some THEN "count" ELSE "block"
    /\ UNCHANGED <<cfg, hats, elapsed, Reader, Files, audit_log, hat, termination>>

(* EventLoop::record_event_count, called before the agent runs. *)
RecordEventCount ==
    /\ pc = "count"
    /\ offset' = read_new_events(journal, offset).position
    /\ pc' = "agent"
    /\ UNCHANGED <<cfg, hats, bus, state, elapsed, journal, Files, audit_log, prompts, hat,
                   termination>>

(* The agent has exited: EventLoop::check_default_publishes. *)
CheckDefaultPublishes ==
    /\ pc = "agent"
    /\ LET result == read_new_events(journal, offset)
       IN  /\ offset' = result.position
           /\ bus' = check_default_publishes(bus, hat, Len(result.events))
    /\ pc' = "output"
    /\ UNCHANGED <<cfg, hats, state, elapsed, journal, Files, audit_log, prompts, hat,
                   termination>>

(* EventLoop::add_cost and EventLoop::process_output with its termination
   check. *)
ProcessOutput(success, cost) ==
    /\ pc = "output"
    /\ \E st \in {process_output([state EXCEPT !.cumulative_cost = @ + cost], hat, success)} :
       \E reason \in {check_termination(st, elapsed, stop_file, restart_file)} :
           /\ state' = st
           /\ termination' = reason
           /\ stop_file' = stop_file_after(st, elapsed, stop_file, restart_file)
           /\ restart_file' = restart_file_after(st, elapsed, stop_file, restart_file)
           /\ bus' = Terminated(bus, reason)
           /\ pc' = IF reason = NoReason THEN "block" ELSE "done"
    /\ UNCHANGED <<cfg, hats, elapsed, Reader, recovery_file, audit_log, prompts, hat>>

(* The environment: the agent and external tools append to the journal, a
   human clears the recovery sentinel or requests a stop or a restart, and
   wall-clock time passes while the agent runs. *)
AppendJournal(line) ==
    /\ pc \in {"block", "agent"}
    /\ Len(journal) < MaxJournal
    /\ journal' = Append(journal, line)
    /\ UNCHANGED <<cfg, hats, bus, state, elapsed, offset, Files, audit_log, prompts, pc, hat,
                   termination>>

ClearRecovery ==
    /\ pc \notin {"bus", "check", "done"}
    /\ is_blocked(recovery_file)
    /\ recovery_file' = <<>>
    /\ UNCHANGED <<cfg, hats, bus, state, elapsed, Reader, stop_file, restart_file, audit_log,
                   prompts, pc, hat, termination>>

(* How many of them are outstanding: seconds elapsed and sentinels present. *)
Disturbances == elapsed + (IF stop_file THEN 1 ELSE 0) + (IF restart_file THEN 1 ELSE 0)

RequestStop ==
    /\ pc = "agent"
    /\ ~stop_file
    /\ Disturbances < MaxDisturbances
    /\ stop_file' = TRUE
    /\ UNCHANGED <<cfg, hats, bus, state, elapsed, Reader, recovery_file, restart_file,
                   audit_log, prompts, pc, hat, termination>>

RequestRestart ==
    /\ pc = "agent"
    /\ ~restart_file
    /\ Disturbances < MaxDisturbances
    /\ restart_file' = TRUE
    /\ UNCHANGED <<cfg, hats, bus, state, elapsed, Reader, recovery_file, stop_file,
                   audit_log, prompts, pc, hat, termination>>

Tick ==
    /\ pc = "agent"
    /\ Disturbances < MaxDisturbances
    /\ elapsed' = elapsed + 1
    /\ UNCHANGED <<cfg, hats, bus, state, journal, offset, Files, audit_log, prompts, pc, hat,
                   termination>>

Next ==
    \/ \E d \in Descriptions, sha \in {"sha1"} : Initialize(d, sha)
    \/ BlockOnRecovery
    \/ ResumeFromRecovery
    \/ Ingest
    \/ CheckCompletion
    \/ InjectFallback
    \/ \E id \in DOMAIN hats : SelectHat(id)
    \/ BuildPrompt
    \/ RecordEventCount
    \/ CheckDefaultPublishes
    \/ \E success \in BOOLEAN, cost \in {0, 1} : ProcessOutput(success, cost)
    \/ \E line \in JournalLines : AppendJournal(line)
    \/ ClearRecovery
    \/ RequestStop
    \/ RequestRestart
    \/ Tick

Spec == Init /\ [][Next]_vars

(* The engine under the scheduling of its polling loop: the loop sleeps two
   seconds and tests the sentinel again, so a sentinel that stays clear is
   found clear. *)
SpecLive == Spec /\ WF_vars(ResumeFromRecovery)

----------------------------------------------------------------------------
(* The engine under the configuration of the triage routing tests: a custom
   planner triggered by task.start and a custom simple-executor triggered by
   triage.decision, initialized with descriptions that take every branch of
   the triage classifier, and run with an agent that writes no event. *)

InitTriage ==
    /\ cfg = [registry |->
          [id \in {"planner", "simple-executor"} |->
              IF id = "planner"
              THEN HatCfg({TTaskStart}, NoLimit, NoTopic)
              ELSE HatCfg({TTriageDecision}, NoLimit, NoTopic)],
              persistent |-> FALSE]
    /\ hats = ConstructedHats(cfg.registry)
    /\ InitRest
    /\ pc = "init"

NextTriage ==
    \/ \E len \in {21, 39, 40, 100, 200, 201, 250}, simple_kw \in BOOLEAN, full_kw \in BOOLEAN,
          tier1_kw \in BOOLEAN, tier3_kw \in BOOLEAN :
          Initialize(Description(len, simple_kw, full_kw, tier1_kw, tier3_kw, "none"), "sha1")
    \/ BlockOnRecovery
    \/ Ingest
    \/ CheckCompletion
    \/ InjectFallback
    \/ \E id \in DOMAIN hats : SelectHat(id)
    \/ BuildPrompt
    \/ RecordEventCount
    \/ CheckDefaultPublishes
    \/ \E success \in BOOLEAN, cost \in {0, 1} : ProcessOutput(success, cost)

SpecTriage == InitTriage /\ [][NextTriage]_vars

----------------------------------------------------------------------------
(* The ingest on its own: process_events_from_jsonl and
   check_completion_event called on an initialized loop as the journal
   grows, the way the repository's tests drive them. *)

IngestLines ==
    JournalLines \cup
    { EventLine(TBuildDone, T1Payload("lint_fail")),
      EventLine(TBuildDone, [text |-> <<"T2">>, ev |-> "none"]),
      EventLine(TBuildBlocked, [text |-> <<"T2">>, ev |-> "none"]) }

InitIngest ==
    /\ cfg \in [registry : {TeamRegistry}, persistent : BOOLEAN]
    /\ hats = ConstructedHats(cfg.registry)
    /\ \E d \in Descriptions :
          LET r == initialize_with_topic(LoopStateNew, EmptyBus(hats), <<>>, d, "sha1")
          IN  state = r.st /\ bus = r.b /\ audit_log = r.al
    /\ elapsed = 0
    /\ journal = <<>>
    /\ offset = 0
    /\ recovery_file = <<>>
    /\ stop_file = FALSE
    /\ restart_file = FALSE
    /\ prompts = <<>>
    /\ hat = NoHat
    /\ termination = NoReason
    /\ pc = "journal"

WriteLine(line) ==
    /\ pc = "journal"
    /\ Len(journal) < MaxLines
    /\ journal' = Append(journal, line)
    /\ UNCHANGED <<cfg, hats, bus, state, elapsed, offset, Files, audit_log, prompts, pc, hat,
                   termination>>

IngestCall ==
    /\ pc = "journal"
    /\ offset < Len(journal)
    /\ IngestEffect
    /\ UNCHANGED <<cfg, hats, elapsed, journal, stop_file, restart_file, prompts, pc, hat,
                   termination>>

CompletionCall ==
    /\ pc = "journal"
    /\ state.completion_requested
    /\ LET r == check_completion_event(state, bus)
       IN  /\ state' = r.st
           /\ bus' = r.b
           /\ termination' = r.reason
           /\ pc' = IF r.reason = NoReason THEN "journal" ELSE "done"
    /\ UNCHANGED <<cfg, hats, elapsed, Reader, Files, audit_log, prompts, hat>>

NextIngest ==
    \/ \E line \in IngestLines : WriteLine(line)
    \/ IngestCall
    \/ CompletionCall

SpecIngest == InitIngest /\ [][NextIngest]_vars

----------------------------------------------------------------------------
(* The ingest driven over the gated topics: build.done, review.done and
   verify.passed lines with and without passing evidence, a line on a topic
   without a gate, a test.strategy line of an agent that redesigns the
   strategy, and a human who clears the recovery sentinel. *)

GatedLines ==
    { EventLine(TBuildDone, T1Payload("none")),
      EventLine(TBuildDone, T1Payload("pass")),
      EventLine(TReviewDone, T1Payload("none")),
      EventLine(TReviewDone, T1Payload("review_fail")),
      EventLine(TReviewDone, T1Payload("review_pass")),
      EventLine(<<"verify", "passed">>, T1Payload("none")),
      EventLine(<<"verify", "passed">>, T1Payload("quality_fail")),
      EventLine(<<"verify", "passed">>, T1Payload("quality_pass")),
      EventLine(TPlanReady, T1Payload("none")),
      EventLine(TTestStrategy, StrategyJson("Tier2")) }

NextGate ==
    \/ \E line \in GatedLines : Len(journal) < MaxJournal /\ WriteLine(line)
    \/ IngestCall
    \/ ClearRecovery

SpecGate == InitIngest /\ [][NextGate]_vars

----------------------------------------------------------------------------
(* The termination check on its own: check_termination applied to every
   loop state, wall clock and pair of sentinel files within the limits.  The
   engine never writes abandoned_task_redispatches; the check reads it, so
   its values are drawn here too. *)

InitTerm ==
    /\ cfg = [registry |-> SoloRegistry, persistent |-> FALSE]
    /\ hats = ConstructedHats(cfg.registry)
    /\ bus = EmptyBus(hats)
    /\ \E i \in 0..CfgMaxIterations, c \in 0..CfgMaxCost, f \in 0..CfgMaxConsecutiveFailures,
          r \in 0..ThrashingLimit, m \in 0..MalformedLimit :
          state = [LoopStateNew EXCEPT !.iteration = i,
                                       !.cumulative_cost = c,
                                       !.consecutive_failures = f,
                                       !.abandoned_task_redispatches = r,
                                       !.consecutive_malformed_events = m]
    /\ elapsed \in 0..CfgMaxRuntimeSeconds
    /\ stop_file \in BOOLEAN
    /\ restart_file \in BOOLEAN
    /\ journal = <<>>
    /\ offset = 0
    /\ recovery_file = <<>>
    /\ audit_log = <<>>
    /\ prompts = <<>>
    /\ hat = NoHat
    /\ termination = NoReason
    /\ pc = "check"

TerminationCall ==
    /\ pc = "check"
    /\ termination' = check_termination(state, elapsed, stop_file, restart_file)
    /\ stop_file' = stop_file_after(state, elapsed, stop_file, restart_file)
    /\ restart_file' = restart_file_after(state, elapsed, stop_file, restart_file)
    /\ pc' = "done"
    /\ UNCHANGED <<cfg, hats, bus, state, elapsed, Reader, recovery_file, audit_log, prompts,
                   hat>>

NextTerm == TerminationCall

SpecTerm == InitTerm /\ [][NextTerm]_vars

----------------------------------------------------------------------------
(* Properties of the event bus, checked under SpecBus. *)

(* A step that publishes one event, and the event it publishes. *)
Published == Len(bus'.observed) = Len(bus.observed) + 1
LastPublished == bus'.observed[Len(bus'.observed)]
Received(h) == bus'.pending[h] = Append(bus.pending[h], LastPublished)
NotReceived(h) == bus'.pending[h] = bus.pending[h]

SpecificSubscribers(topic) ==
    {h \in DOMAIN hats : \E sub \in hats[h] : sub # TStar /\ matches(sub, topic)}
WildcardSubscribers(topic) == {h \in DOMAIN hats : TStar \in hats[h]}

(* C2 as stated: a hat receives a published event if and only if it is the
   event's target, or the topic has specific subscribers and the hat is one
   of them, or the topic has no specific subscribers and the hat is a
   global-wildcard fallback. *)
C2_Original ==
    [][Published =>
        \A h \in DOMAIN hats :
            LET e == LastPublished
            IN  Received(h) <=>
                    \/ e.target = h
                    \/ /\ SpecificSubscribers(e.topic) # {}
                       /\ h \in SpecificSubscribers(e.topic)
                    \/ /\ SpecificSubscribers(e.topic) = {}
                       /\ h \in WildcardSubscribers(e.topic)]_vars

(* The hats the triage routing mode in force lets the topic reach. *)
Unfiltered(topic) ==
    {h \in DOMAIN hats :
        ~ \/ bus'.routing_mode = "Simple" /\ h = "planner" /\ topic = TTaskStart
          \/ bus'.routing_mode = "Full" /\ h = "simple-executor" /\ topic = TTriageDecision}

(* C2: a published event whose topic starts with "human." reaches no hat
   queue; a targeted event reaches exactly its target; an untargeted event
   reaches, among the hats the routing mode does not filter for its topic,
   the specific subscribers if there are any and the "*" subscribers
   otherwise.  Every hat queue either gains the event at its end or is left
   as it was. *)
C2_Routing ==
    [][Published =>
        \A h \in DOMAIN hats :
            LET e == LastPublished
                specific == SpecificSubscribers(e.topic) \cap Unfiltered(e.topic)
                wildcard == WildcardSubscribers(e.topic) \cap Unfiltered(e.topic)
                receives ==
                    /\ ~starts_with_human(e.topic)
                    /\ IF e.target # NoHat THEN e.target = h
                       ELSE IF specific # {} THEN h \in specific
                       ELSE h \in wildcard
            IN  IF receives THEN Received(h) ELSE NotReceived(h)]_vars

(* A task.start without target was published first: the planner, a specific
   subscriber, holds it and ralph, subscribed to "*", does not. *)
C2_Witness ==
    /\ Len(bus.observed) = 1
    /\ bus.observed[1].topic = TTaskStart
    /\ bus.observed[1].target = NoHat
    /\ bus.pending["planner"] = <<bus.observed[1]>>
    /\ bus.pending["ralph"] = <<>>
    /\ "simple-executor" \in DOMAIN hats

(* C8: publishing an event whose topic starts with "human." appends it to
   the human-pending queue and changes no hat's queue, whatever its target
   and whichever hats subscribe to its topic; no hat queue ever holds such
   an event. *)
C8_HumanQueue ==
    [][Published /\ starts_with_human(LastPublished.topic) =>
        /\ bus'.human_pending = Append(bus.human_pending, LastPublished)
        /\ bus'.pending = bus.pending
        /\ \A h \in DOMAIN hats : \A i \in 1..Len(bus'.pending[h]) :
              ~starts_with_human(bus'.pending[h][i].topic)]_vars

(* A human.guidance targeted at the planner, which subscribes to "human.*",
   is in the human-pending queue and the planner's queue is empty. *)
C8_Witness ==
    /\ \E i \in 1..Len(bus.human_pending) :
          /\ bus.human_pending[i].topic = THumanGuidance
          /\ bus.human_pending[i].target = "planner"
    /\ <<"human", "*">> \in hats["planner"]
    /\ Len(bus.observed) = 1
    /\ bus.pending["planner"] = <<>>

----------------------------------------------------------------------------
(* Properties of the termination check, checked under SpecTerm. *)

(* A step in which check_termination runs. *)
Checked == pc = "check" /\ pc' = "done"

(* The conditions of the termination policy in the order the policy lists
   them, and the reason each one stands for. *)
PolicyConditions ==
    << state.iteration >= CfgMaxIterations,
       elapsed >= CfgMaxRuntimeSeconds,
       state.cumulative_cost >= CfgMaxCost,
       state.consecutive_failures >= CfgMaxConsecutiveFailures,
       state.abandoned_task_redispatches >= 3,
       state.consecutive_malformed_events >= 3,
       stop_file,
       restart_file >>

PolicyReasons ==
    << "max_iterations", "max_runtime", "max_cost", "consecutive_failures",
       "loop_thrashing", "validation_failure", "stopped", "restart_requested" >>

FirstHolding ==
    CHOOSE i \in 1..Len(PolicyConditions) :
        PolicyConditions[i] /\ \A j \in 1..(i - 1) : ~PolicyConditions[j]

(* C9: check_termination returns the reason of the first condition that
   holds in the order iterations, elapsed time, cost, consecutive failures,
   redispatches >= 3, malformed events >= 3, stop sentinel, restart
   sentinel, and no reason exactly when none of them holds. *)
C9_FirstMatchWins ==
    [][Checked =>
        IF \E i \in 1..Len(PolicyConditions) : PolicyConditions[i]
        THEN termination' = PolicyReasons[FirstHolding]
        ELSE termination' = NoReason]_vars

(* The check returned loop_thrashing while the malformed counter was at its
   limit and both sentinels were present. *)
C9_Witness ==
    /\ pc = "done"
    /\ termination = "loop_thrashing"
    /\ state.consecutive_malformed_events >= 3
    /\ stop_file
    /\ restart_file

(* C10 as stated: a sentinel present when the check runs does not exist
   after the check. *)
C10_Original ==
    [][Checked =>
        /\ stop_file => ~stop_file'
        /\ restart_file => ~restart_file']_vars

(* C10: the check removes the stop sentinel exactly when it returns
   stopped, which it does when the sentinel is present and none of the six
   conditions before it holds; otherwise the stop sentinel is left as it
   was, and the restart sentinel is never removed by the check, also when
   the check returns restart_requested. *)
C10_Sentinels ==
    [][Checked =>
        /\ stop_file' = (stop_file /\ \E i \in 1..6 : PolicyConditions[i])
        /\ (termination' = "stopped") = (stop_file /\ ~stop_file')
        /\ restart_file' = restart_file
        /\ termination' = "restart_requested" => restart_file']_vars

(* The check returned stopped and removed the stop sentinel while the
   restart sentinel, present before, is still there. *)
C10_Witness ==
    /\ pc = "done"
    /\ termination = "stopped"
    /\ ~stop_file
    /\ restart_file

----------------------------------------------------------------------------
(* Properties of the ingest, checked under SpecIngest. *)

(* A step that ingests the unread lines of the journal, and those lines. *)
Ingested == offset' > offset
Batch == SubSeq(journal, offset + 1, Len(journal))
BatchEvents == SelectSeq(Batch, IsEvent)
BatchMalformed == SelectSeq(Batch, IsMalformed)

RECURSIVE TrailingMalformed(_)
TrailingMalformed(lines) ==
    IF lines = <<>> \/ ~IsMalformed(lines[Len(lines)]) THEN 0
    ELSE 1 + TrailingMalformed(SubSeq(lines, 1, Len(lines) - 1))

(* A step in which check_completion_event acts on a requested completion. *)
CompletionStep == state.completion_requested /\ ~state'.completion_requested

LastIsCompletion ==
    BatchEvents # <<>> /\ BatchEvents[Len(BatchEvents)].topic = TCompletion

(* C3: an ingest sets completion_requested exactly when the last event of
   its batch is on the completion topic, wherever else in the batch such
   events occur; the completion check that follows returns the reason
   completed, exit code 0, exactly when the flag is set and the loop is not
   persistent, and nothing else yields that reason. *)
C3_CompletionLast ==
    [][/\ Ingested =>
            state'.completion_requested = (state.completion_requested \/ LastIsCompletion)
       /\ CompletionStep =>
            /\ (termination' = "completed") = ~cfg.persistent
            /\ termination' = "completed" => pc' = "done" /\ exit_code(termination') = 0
       /\ (termination' = "completed" /\ termination # "completed") => CompletionStep]_vars

(* The loop terminated as completed after a completion event, a
   build.blocked and a second completion event were ingested. *)
C3_Witness ==
    /\ pc = "done"
    /\ termination = "completed"
    /\ Len(journal) = 3
    /\ offset = 3
    /\ journal[1].topic = TCompletion
    /\ IsEvent(journal[2]) /\ journal[2].topic = TBuildBlocked
    /\ journal[3].topic = TCompletion
    /\ Len(bus.observed) = 4

(* C5 as stated: when the lines ingested so far end with three malformed
   lines, the termination check returns validation_failure. *)
C5_Original ==
    TrailingMalformed(SubSeq(journal, 1, offset)) >= 3
        => check_termination(state, elapsed, stop_file, restart_file) = "validation_failure"

(* C5: an ingest that reads a well-formed event anywhere in its batch sets
   the counter of consecutive malformed events to zero, and any other
   ingest adds the number of malformed lines it read; once the counter is
   three or more, and no condition the termination check evaluates earlier
   holds, the check returns validation_failure, exit code 1. *)
C5_MalformedCounter ==
    [][Ingested =>
        /\ state'.consecutive_malformed_events =
              IF BatchEvents # <<>> THEN 0
              ELSE state.consecutive_malformed_events + Len(BatchMalformed)
        /\ (/\ state'.consecutive_malformed_events >= 3
            /\ state'.iteration < CfgMaxIterations
            /\ elapsed' < CfgMaxRuntimeSeconds
            /\ state'.cumulative_cost < CfgMaxCost
            /\ state'.consecutive_failures < CfgMaxConsecutiveFailures
            /\ state'.abandoned_task_redispatches < 3)
           => LET reason == check_termination(state', elapsed', stop_file', restart_file')
              IN  reason = "validation_failure" /\ exit_code(reason) = 1]_vars

(* Three malformed lines were ingested, no well-formed line with them, and
   the counter stands at three. *)
C5_Witness ==
    /\ offset = 3
    /\ \A i \in 1..3 : IsMalformed(journal[i])
    /\ state.consecutive_malformed_events = 3
    /\ Len(bus.observed) >= 3
    /\ check_termination(state, elapsed, stop_file, restart_file) = "validation_failure"

(* The published events on a topic whose payload's first line is a task id. *)
PublishedFor(topic, text) ==
    Cardinality({i \in 1..Len(bus.observed) :
                    bus.observed[i].topic = topic /\ bus.observed[i].payload.text = text})

BlockedTaskIds ==
    {extract_task_id(bus.observed[i].payload) :
        i \in {j \in 1..Len(bus.observed) : bus.observed[j].topic = TBuildBlocked}}

AbandonedText(task_id) == <<"Task">> \o task_id \o <<"abandoned">>

(* C6: for every task id, a build.task.abandoned for it has been published
   exactly once if three or more build.blocked events with that id have
   been processed, and never otherwise; no build.task.abandoned is
   published for anything else. *)
C6_AbandonedOnce ==
    /\ \A t \in BlockedTaskIds :
          PublishedFor(TBuildAbandoned, AbandonedText(t)) =
              IF PublishedFor(TBuildBlocked, t) >= 3 THEN 1 ELSE 0
    /\ \A i \in 1..Len(bus.observed) :
          bus.observed[i].topic = TBuildAbandoned
              => \E t \in BlockedTaskIds : bus.observed[i].payload.text = AbandonedText(t)

(* Four build.blocked events for task T1 were processed and one
   build.task.abandoned for T1 was published. *)
C6_Witness ==
    /\ PublishedFor(TBuildBlocked, <<"T1">>) = 4
    /\ PublishedFor(TBuildAbandoned, AbandonedText(<<"T1">>)) = 1

(* C7 as stated: every abandonment of a task increments
   abandoned_task_redispatches. *)
C7_Original ==
    [][Len(state'.abandoned_tasks) > Len(state.abandoned_tasks)
        => state'.abandoned_task_redispatches > state.abandoned_task_redispatches]_vars

(* The build.done events of a batch that validation rejects: their evidence
   is missing, fails a check, or violates the active strategy's gate. *)
RejectedBuildDone(e) ==
    /\ e.topic = TBuildDone
    /\ LET evidence == parse_backpressure_evidence(e.payload)
       IN  ~(/\ evidence.some
             /\ all_passed(evidence)
             /\ strategy_errors(state.active_strategy, evidence) = <<>>)

(* C11 as stated: an ingest appends one entry to the recovery sentinel for
   every build.done of its batch that validation rejects, and the entries
   the sentinel held before the ingest are still there after it. *)
C11_Original ==
    [][Ingested =>
        /\ Len(recovery_file') =
              Len(recovery_file) + Len(SelectSeq(BatchEvents, RejectedBuildDone))
        /\ SubSeq(recovery_file', 1, Len(recovery_file)) = recovery_file]_vars

(* The events of a batch on a gated topic that validation rejects. *)
RejectedGated(e) ==
    \/ RejectedBuildDone(e)
    \/ /\ e.topic = TReviewDone
       /\ ~(parse_review_evidence(e.payload).some
            /\ is_verified(parse_review_evidence(e.payload)))
    \/ /\ e.topic = <<"verify", "passed">>
       /\ ~(parse_quality_report(e.payload).some
            /\ parse_quality_report(e.payload).meets_thresholds)

(* C12 as stated: an ingest whose batch holds a rejected build.done,
   review.done or verify.passed leaves the failure recorded in the recovery
   sentinel and the loop halted. *)
C12_Original ==
    [][(Ingested /\ \E i \in 1..Len(BatchEvents) : RejectedGated(BatchEvents[i]))
        => is_blocked(recovery_file') /\ state'.is_halted]_vars

----------------------------------------------------------------------------
(* Properties of the iteration engine, checked under Spec. *)

(* C1 as stated: no hat's pending queue ever holds a build.done whose
   payload has missing or failing backpressure evidence. *)
C1_Original ==
    \A h \in DOMAIN bus.pending : \A i \in 1..Len(bus.pending[h]) :
        LET e == bus.pending[h][i]
            evidence == parse_backpressure_evidence(e.payload)
        IN  e.topic = TBuildDone => evidence.some /\ all_passed(evidence)

(* C4 as stated: no prompt is composed while the recovery sentinel is
   non-empty. *)
C4_Original ==
    [][Len(prompts') > Len(prompts) => ~is_blocked(recovery_file)]_vars

(* The halt and the resumption are the last two rows of the audit log. *)
HaltThenResumeLogged ==
    /\ Len(audit_log) >= 2
    /\ audit_log[Len(audit_log) - 1] = "LOOP_HALTED"
    /\ audit_log[Len(audit_log)] = "LOOP_RESUMED"

(* C13: an engine that reaches its block point while the recovery sentinel
   is non-empty halts there, with is_halted set and a halt logged, and stays
   there without composing a prompt or counting an iteration for as long as
   the sentinel is non-empty; once the sentinel is clear the engine
   eventually moves on to its ingest with is_halted false, the halt and the
   resumption logged in that order. *)
C13_BlockAndResume ==
    /\ [][(pc = "block" /\ pc' # "block" /\ recovery_file # <<>>)
            => /\ pc' = "halted"
               /\ state'.is_halted
               /\ audit_log' = Append(audit_log, "LOOP_HALTED")]_vars
    /\ [][(pc = "halted" /\ recovery_file # <<>>)
            => /\ pc' = "halted"
               /\ prompts' = prompts
               /\ state' = state
               /\ bus' = bus]_vars
    /\ (pc = "halted" /\ recovery_file = <<>>)
          ~> (pc = "ingest" /\ ~state.is_halted /\ HaltThenResumeLogged)

(* The engine halted on a recorded failure, a human cleared the sentinel and
   the engine resumed: it stands before its ingest, one iteration done. *)
C13_Witness ==
    /\ pc = "ingest"
    /\ state.iteration = 1
    /\ ~state.is_halted
    /\ recovery_file = <<>>
    /\ HaltThenResumeLogged

----------------------------------------------------------------------------
(* Further properties of the event bus, checked under SpecBus. *)

(* C14: every step of the bus is either a publish, which invokes the
   observers once with the published event, after the events published
   before it, whether the event goes to a hat's queue, to the human queue
   or to no queue, or a take, which does not invoke them. *)
C14_Observers ==
    [][IF Len(bus'.observed) # Len(bus.observed)
       THEN /\ bus'.observed = Append(bus.observed, LastPublished)
            /\ BusPublish(LastPublished)
       ELSE /\ bus'.observed = bus.observed
            /\ \/ BusTakeHumanPending
               \/ \E id \in DOMAIN hats : BusTakePending(id)]_vars

(* Three events were observed in the order published: one went to the human
   queue, one to no queue (its target is not a registered hat), and one to
   the planner's queue. *)
C14_Witness ==
    /\ Len(bus.observed) = 3
    /\ starts_with_human(bus.observed[1].topic)
    /\ bus.human_pending = <<bus.observed[1]>>
    /\ bus.observed[2].target = "nobody"
    /\ bus.observed[3].topic = TBuildDone
    /\ bus.pending["planner"] = <<bus.observed[3]>>
    /\ \A h \in DOMAIN hats \ {"planner"} : bus.pending[h] = <<>>

(* q holds elements of s in the order they have in s. *)
RECURSIVE IsSubsequence(_, _)
IsSubsequence(q, s) ==
    IF q = <<>> THEN TRUE
    ELSE IF s = <<>> THEN FALSE
    ELSE IF Head(q) = Head(s) THEN IsSubsequence(Tail(q), Tail(s))
    ELSE IsSubsequence(q, Tail(s))

(* C15: a hat's queue changes only by a publish, which appends the
   published event at its end, and by a take for that hat, which empties it
   and touches no other queue; so the queue a take returns - what
   peek_pending shows before it - holds exactly the events delivered to the
   hat since its previous take, in publish order, and none of them is
   returned again. *)
C15_TakePending ==
    [][/\ \A id \in DOMAIN hats :
            BusTakePending(id) =>
                /\ peek_pending(bus, id) # <<>>
                /\ bus'.pending[id] = <<>>
                /\ \A h \in DOMAIN hats \ {id} : bus'.pending[h] = bus.pending[h]
                /\ bus'.human_pending = bus.human_pending
       /\ Published =>
            \A h \in DOMAIN hats : Received(h) \/ NotReceived(h)
       /\ (~Published /\ \A id \in DOMAIN hats : ~BusTakePending(id)) =>
            bus'.pending = bus.pending
       /\ \A h \in DOMAIN hats :
            /\ peek_pending(bus', h) = bus'.pending[h]
            /\ IsSubsequence(bus'.pending[h], bus'.observed)]_vars

(* The planner was delivered two build.done events, took them, and was then
   delivered a task.start: its queue holds the task.start only. *)
C15_Witness ==
    /\ Len(bus.observed) = 3
    /\ <<"build", "*">> \in hats["planner"]
    /\ \A i \in 1..2 : bus.observed[i].topic = TBuildDone /\ bus.observed[i].target = NoHat
    /\ bus.observed[3].topic = TTaskStart
    /\ bus.observed[3].target = NoHat
    /\ bus.pending["planner"] = <<bus.observed[3]>>

(* A step that publishes an event without target on a topic that does not
   start with "human.". *)
PublishedUntargeted ==
    /\ Published
    /\ LastPublished.target = NoHat
    /\ ~starts_with_human(LastPublished.topic)

(* C16 as stated: when the topic of such an event matches a specific
   subscription of one hat and the "*" of another, only hats with a
   specific subscription receive the event. *)
C16_Original ==
    [][(/\ PublishedUntargeted
        /\ SpecificSubscribers(LastPublished.topic) # {}
        /\ WildcardSubscribers(LastPublished.topic)
              \ SpecificSubscribers(LastPublished.topic) # {})
        => \A h \in DOMAIN hats :
              Received(h) => h \in SpecificSubscribers(LastPublished.topic)]_vars

(* C16: among the hats the routing mode does not skip for the topic, the
   hats with a specific subscription matching it receive the event and no
   other hat does; only when every hat with a specific subscription is
   skipped (planner for task.start in Simple mode, simple-executor for
   triage.decision in Full mode) do the hats subscribed to "*" receive it. *)
C16_SpecificWins ==
    [][PublishedUntargeted =>
        LET topic == LastPublished.topic
            specific == SpecificSubscribers(topic) \cap Unfiltered(topic)
        IN  /\ specific # {} =>
                \A h \in DOMAIN hats : Received(h) <=> h \in specific
            /\ (specific = {} /\ SpecificSubscribers(topic) # {}) =>
                \A h \in DOMAIN hats :
                    Received(h) <=> h \in WildcardSubscribers(topic) \cap Unfiltered(topic)]_vars

(* In Simple mode a task.start was published: the planner, subscribed to
   task.start, was skipped and ralph, subscribed to "*", holds the event. *)
C16_Witness ==
    /\ bus.routing_mode = "Simple"
    /\ Len(bus.observed) = 2
    /\ bus.observed[2].topic = TTaskStart
    /\ bus.observed[2].target = NoHat
    /\ TTaskStart \in hats["planner"]
    /\ bus.pending["planner"] = <<>>
    /\ bus.pending["ralph"] = <<bus.observed[2]>>

(* C17: a published event that carries a target and whose topic does not
   start with "human." is appended to the queue of its target and leaves
   every other queue as it was, whichever hats subscribe to its topic; when
   the target is not a registered hat no queue changes. *)
C17_Targeted ==
    [][(/\ Published
        /\ LastPublished.target # NoHat
        /\ ~starts_with_human(LastPublished.topic))
        => /\ \A h \in DOMAIN hats :
                IF h = LastPublished.target THEN Received(h) ELSE NotReceived(h)
           /\ bus'.human_pending = bus.human_pending]_vars

(* A review.done targeted at the planner, which does not subscribe to it,
   is in the planner's queue; ralph, subscribed to "*", did not receive it. *)
C17_Witness ==
    /\ Len(bus.observed) = 1
    /\ bus.observed[1].topic = TReviewDone
    /\ bus.observed[1].target = "planner"
    /\ ~is_subscribed(hats["planner"], TReviewDone)
    /\ bus.pending["planner"] = <<bus.observed[1]>>
    /\ bus.pending["ralph"] = <<>>

----------------------------------------------------------------------------
(* The routing mode and the active strategy of the bus, checked under
   SpecBusApi. *)

(* C18 as stated: the routing mode changes only in a publish on
   triage.decision and the active strategy only in a publish on
   test.strategy. *)
C18_Original ==
    [][/\ bus'.routing_mode # bus.routing_mode
            => Published /\ LastPublished.topic = TTriageDecision
       /\ bus'.active_strategy # bus.active_strategy
            => Published /\ LastPublished.topic = TTestStrategy]_vars

(* C18: a publish sets the routing mode exactly when the event is on
   triage.decision and its payload is a serialized decision, to the mode of
   that decision, and sets the active strategy exactly when the event is on
   test.strategy and its payload is a serialized strategy; take and peek
   operations change neither; the only other operations that change them
   are the bus's setters set_routing_mode and set_active_strategy. *)
C18_ReservedTopics ==
    [][/\ Published =>
            /\ bus'.routing_mode =
                  IF /\ LastPublished.topic = TTriageDecision
                     /\ \E m \in {"Simple", "Full"} : LastPublished.payload = TriageJson(m)
                  THEN LastPublished.payload.text[2] ELSE bus.routing_mode
            /\ bus'.active_strategy =
                  IF /\ LastPublished.topic = TTestStrategy
                     /\ \E t \in {"Tier1", "Tier2", "Tier3"} :
                           LastPublished.payload = StrategyJson(t)
                  THEN LastPublished.payload.text[2] ELSE bus.active_strategy
       /\ (~Published /\ bus'.routing_mode # bus.routing_mode)
            => SetRoutingMode(bus'.routing_mode)
       /\ (~Published /\ bus'.active_strategy # bus.active_strategy)
            => SetActiveStrategy(bus'.active_strategy)]_vars

(* A triage.decision whose payload is no decision left the mode unset, and
   the Full decision published after it set the mode. *)
C18_Witness ==
    /\ Len(bus.observed) = 2
    /\ bus.observed[1] = NewEvent(TTriageDecision, EmptyPayload)
    /\ bus.observed[2] = NewEvent(TTriageDecision, TriageJson("Full"))
    /\ bus.routing_mode = "Full"
    /\ bus.active_strategy = NoStrategy

----------------------------------------------------------------------------
(* Further properties of the iteration engine, checked under Spec. *)

(* C19: in every state of a run, for every configuration, a hat is
   registered on the bus under the id ralph, it subscribes to "*" and to
   nothing else, and it has a queue; no step of the run changes the hats
   registered on the bus. *)
C19_RalphConstant ==
    /\ [](/\ "ralph" \in DOMAIN hats
          /\ hats["ralph"] = {TStar}
          /\ "ralph" \in DOMAIN bus.pending)
    /\ [][hats' = hats]_vars

(* A run under a configuration that defines a custom hat ralph subscribed
   to build.task came to its end with ralph subscribed to "*" on the bus. *)
C19_Witness ==
    /\ pc = "done"
    /\ "ralph" \in DOMAIN cfg.registry
    /\ cfg.registry["ralph"].subscriptions = {TBuildTask}
    /\ hats["ralph"] = {TStar}
    /\ Len(prompts) >= 1

----------------------------------------------------------------------------
(* Triage routing at initialization, checked under SpecTriage. *)

(* A step in which initialize publishes the start of a task. *)
Initialized == pc = "init" /\ pc' = "block" /\ bus' # bus

HoldsTopic(h, topic) == \E i \in 1..Len(bus'.pending[h]) : bus'.pending[h][i].topic = topic

(* C20: with a custom planner subscribed to task.start and a custom
   simple-executor subscribed to triage.decision, initializing a task.start
   task that triage classifies Simple leaves no task.start in the planner's
   queue and a triage.decision in the simple-executor's; a task classified
   Full leaves the task.start in the planner's queue and no triage.decision
   in the simple-executor's.  The decision is one of the two. *)
C20_TriageRouting ==
    [][Initialized =>
        /\ state'.triage_decision \in {"Simple", "Full"}
        /\ bus'.routing_mode = state'.triage_decision
        /\ state'.triage_decision = "Simple" =>
              /\ ~HoldsTopic("planner", TTaskStart)
              /\ HoldsTopic("simple-executor", TTriageDecision)
        /\ state'.triage_decision = "Full" =>
              /\ HoldsTopic("planner", TTaskStart)
              /\ ~HoldsTopic("simple-executor", TTriageDecision)]_vars

(* A task classified Simple was initialized: the simple-executor holds the
   decision, the planner nothing, and ralph the task.start. *)
C20_Witness ==
    /\ pc = "block"
    /\ state.iteration = 0
    /\ state.triage_decision = "Simple"
    /\ bus.pending["planner"] = <<>>
    /\ Len(bus.pending["simple-executor"]) = 1
    /\ bus.pending["simple-executor"][1].topic = TTriageDecision
    /\ \E i \in 1..Len(bus.pending["ralph"]) : bus.pending["ralph"][i].topic = TTaskStart

----------------------------------------------------------------------------
(* Ralph's queue after initialization, checked under SpecTriage. *)

(* C21 (as stated): after initializing a task.start task classified Simple,
   with custom hats planner (task.start) and simple-executor
   (triage.decision), the published triage.decision is pending in ralph's
   queue. *)
C21_Original ==
    [][Initialized /\ state'.triage_decision = "Simple" =>
          HoldsTopic("ralph", TTriageDecision)]_vars

----------------------------------------------------------------------------
(* Order of the events of initialization, checked under SpecTriage. *)

(* C22: initialization with the topic task.start publishes triage.decision,
   then test.strategy, then task.start; the decision and the strategy the
   events carry are the ones stored for the task, the bus's routing mode and
   active strategy equal them, and the task.start was routed under that
   routing mode. *)
C22_InitOrder ==
    [][Initialized =>
        /\ Len(bus'.observed) = Len(bus.observed) + 3
        /\ \E n \in {Len(bus.observed)} :
              /\ bus'.observed[n + 1].topic = TTriageDecision
              /\ ParseTriageDecision(bus'.observed[n + 1].payload) = state'.triage_decision
              /\ bus'.observed[n + 2].topic = TTestStrategy
              /\ ParseTestStrategy(bus'.observed[n + 2].payload) = state'.active_strategy
              /\ bus'.observed[n + 3].topic = TTaskStart
              /\ \A h \in DOMAIN hats :
                    HoldsTopic(h, TTaskStart)
                        <=> h \in Recipients(state'.triage_decision, bus'.observed[n + 3])
        /\ state'.triage_decision # NoMode
        /\ state'.active_strategy # NoStrategy
        /\ bus'.routing_mode = state'.triage_decision
        /\ bus'.active_strategy = state'.active_strategy]_vars

(* A task classified Full with a Tier1 strategy was initialized: the three
   events were published and the planner holds the task.start. *)
C22_Witness ==
    /\ pc = "block"
    /\ state.iteration = 0
    /\ Len(bus.observed) = 3
    /\ bus.observed[3].topic = TTaskStart
    /\ bus.routing_mode = "Full"
    /\ bus.active_strategy = "Tier1"
    /\ Len(bus.pending["planner"]) = 1
    /\ bus.pending["planner"][1].topic = TTaskStart

----------------------------------------------------------------------------
(* Hat selection, checked under Spec. *)

(* C23 (as stated): where the engine selects a hat, next_hat returns a hat
   exactly when some hat's queue or the human queue is non-empty; with
   custom hats registered, or with only human events pending, the hat is
   ralph; in solo mode exactly one hat has pending events and next_hat
   returns that hat, which is ralph. *)
C23_Original ==
    pc = "select" =>
        /\ next_hat(bus) # {} <=> (HatsWithPending(bus) # {} \/ has_human_pending(bus))
        /\ (next_hat(bus) # {} /\ (DOMAIN cfg.registry # {} \/ HatsWithPending(bus) = {}))
              => next_hat(bus) = {"ralph"}
        /\ (DOMAIN cfg.registry = {} /\ HatsWithPending(bus) # {})
              => /\ Cardinality(HatsWithPending(bus)) = 1
                 /\ next_hat(bus) = {"ralph"}

----------------------------------------------------------------------------
(* Prompt composition on its own: on an initialized loop with custom hats
   the journal grows, process_events_from_jsonl publishes its events and
   build_prompt composes ralph's prompt from the queues. *)

PromptCall ==
    /\ pc = "journal"
    /\ "ralph" \in next_hat(bus)
    /\ \E r \in {build_prompt(state, bus, "ralph")} :
           /\ state' = r.st
           /\ bus' = r.b
           /\ prompts' = IF r.prompt.some THEN Append(prompts, r.prompt) ELSE prompts
    /\ UNCHANGED <<cfg, hats, elapsed, Reader, Files, audit_log, pc, hat, termination>>

NextPrompt ==
    \/ \E topic \in {TBuildTask, TPlanReady} : WriteLine(EventLine(topic, T1Payload("none")))
    \/ IngestCall
    \/ PromptCall

SpecPrompt == InitIngest /\ [][NextPrompt]_vars

(* A step in which build_prompt composed a prompt, and the prompt. *)
Composed == Len(prompts') = Len(prompts) + 1
LastPrompt == prompts'[Len(prompts')]

LimitedHats == {h \in DOMAIN cfg.registry : cfg.registry[h].max_activations # NoLimit}
OverLimit(h) == CountOf(state.hat_activation_counts, h) >= cfg.registry[h].max_activations
TimesEmitted(b, h) ==
    Cardinality({i \in 1..Len(b.observed) : b.observed[i].topic = <<h, "exhausted">>})
InQueue(h, e) == \E i \in 1..Len(bus.pending[h]) : bus.pending[h][i] = e
InLastPrompt(e) == \E i \in 1..Len(LastPrompt.events) : LastPrompt.events[i] = e

(* C24: for each hat with a configured max_activations, the event
   '<hat>.exhausted' is published at most once in a run, in the first
   composition that finds events pending for the hat once its activations
   have reached the limit; in that composition and in every later one the
   hat's pending events are taken from its queue and none of them appears in
   the prompt, while below the limit all of them do. *)
C24_Exhaustion ==
    /\ [](\A h \in LimitedHats :
             /\ TimesEmitted(bus, h) = IF h \in state.exhausted_hats THEN 1 ELSE 0
             /\ h \in state.exhausted_hats => OverLimit(h))
    /\ [][\A h \in LimitedHats :
             /\ (Composed /\ bus.pending[h] # <<>> /\ OverLimit(h)) =>
                   /\ h \in state'.exhausted_hats
                   /\ bus'.pending[h] = <<>>
                   /\ \A i \in 1..Len(bus.pending[h]) : ~InLastPrompt(bus.pending[h][i])
             /\ (Composed /\ bus.pending[h] # <<>> /\ ~OverLimit(h)) =>
                   /\ h \notin state'.exhausted_hats
                   /\ \A i \in 1..Len(bus.pending[h]) : InLastPrompt(bus.pending[h][i])
             /\ (h \in state'.exhausted_hats /\ h \notin state.exhausted_hats) =>
                   Composed /\ bus.pending[h] # <<>> /\ OverLimit(h)
             /\ h \in state.exhausted_hats => h \in state'.exhausted_hats]_vars

(* The builder was activated, exhausted with its event published, and a
   build.task published after that was taken from its queue. *)
C24_Witness ==
    /\ "builder" \in state.exhausted_hats
    /\ bus.pending["builder"] = <<>>
    /\ \E i, j, k \in 1..Len(bus.observed) :
          /\ i < j /\ j < k
          /\ bus.observed[i].topic = TBuildTask
          /\ bus.observed[j] = ExhaustedEvent("builder")
          /\ bus.observed[k].topic = TBuildTask
    /\ Cardinality({n \in 1..Len(prompts) :
           \E i \in 1..Len(prompts[n].events) : prompts[n].events[i].topic = TBuildTask}) = 1

----------------------------------------------------------------------------
(* The loop.terminate event, checked under Spec. *)

(* C25 (as stated): the loop.terminate event published at termination is
   delivered to observers only; it is never placed in any hat's pending
   queue. *)
C25_Original ==
    \A h \in DOMAIN hats :
        \A i \in 1..Len(bus.pending[h]) : bus.pending[h][i].topic # TLoopTerminate

----------------------------------------------------------------------------
(* Completion in persistent mode, checked under Spec. *)

(* C26: in persistent mode the completion check that finds an accepted
   completion event returns no termination reason, clears
   completion_requested and publishes exactly one event, a task.resume; the
   loop never terminates as completed. *)
C26_PersistentCompletion ==
    /\ [](cfg.persistent => termination # "completed")
    /\ [][(pc = "complete" /\ pc' # "complete" /\ cfg.persistent
              /\ state.completion_requested) =>
             /\ termination' = NoReason
             /\ pc' = "select"
             /\ ~state'.completion_requested
             /\ Published
             /\ LastPublished.topic = TTaskResume
             /\ bus'.observed = Append(bus.observed, LastPublished)]_vars

(* A persistent loop accepted a completion event and went on to select a
   hat for the task.resume published in its place. *)
C26_Witness ==
    /\ cfg.persistent
    /\ pc = "select"
    /\ ~state.completion_requested
    /\ termination = NoReason
    /\ \E i \in 1..Len(journal) : i <= offset /\ journal[i] = EventLine(TCompletion, EmptyPayload)
    /\ Len(bus.observed) >= 1
    /\ bus.observed[Len(bus.observed)] = ResumeEvent("Persistent mode: loop staying alive")

----------------------------------------------------------------------------
(* The review and verification gates, checked under SpecGate. *)

(* The events an ingest publishes, in order, and those of them that stand
   for an event of the batch. *)
NewlyPublished == SubSeq(bus'.observed, Len(bus.observed) + 1, Len(bus'.observed))
StandsForEvent(e) == e.topic \notin {TEventMalformed, TBuildAbandoned}
PublishedForBatch == SelectSeq(NewlyPublished, StandsForEvent)
NotCompletion(e) == e.topic # TCompletion
BatchRouted == SelectSeq(BatchEvents, NotCompletion)

ReviewRejected(e) ==
    e.topic = TReviewDone /\ e.payload.ev # "review_pass"
VerifyRejected(e) ==
    e.topic = <<"verify", "passed">> /\ e.payload.ev # "quality_pass"
GatedTopics == {TCompletion, TBuildDone, TReviewDone, <<"verify", "passed">>}

(* C27: no hat's queue ever holds a review.done without passing
   verification evidence or a verify.passed without a passing quality
   report; an ingest publishes one event for each event of its batch, in the
   batch's order: a review.blocked for a rejected review.done, a
   verify.failed for a rejected verify.passed, and for an event on a topic
   without a gate an event with the same topic and payload. *)
C27_ReviewVerifyGates ==
    /\ [](\A h \in DOMAIN hats : \A i \in 1..Len(bus.pending[h]) :
             ~ReviewRejected(bus.pending[h][i]) /\ ~VerifyRejected(bus.pending[h][i]))
    /\ [][Ingested =>
             /\ Len(PublishedForBatch) = Len(BatchRouted)
             /\ \A i \in 1..Len(BatchRouted) :
                   /\ ReviewRejected(BatchRouted[i]) =>
                         PublishedForBatch[i].topic = <<"review", "blocked">>
                   /\ VerifyRejected(BatchRouted[i]) =>
                         PublishedForBatch[i].topic = <<"verify", "failed">>
                   /\ (~ReviewRejected(BatchRouted[i]) /\ ~VerifyRejected(BatchRouted[i])
                         /\ BatchRouted[i].topic # TBuildDone) =>
                         PublishedForBatch[i] = NewEvent(BatchRouted[i].topic,
                                                         BatchRouted[i].payload)
                   /\ PublishedForBatch[i].topic \in
                         {<<"review", "blocked">>, <<"verify", "failed">>} =>
                         ReviewRejected(BatchRouted[i]) \/ VerifyRejected(BatchRouted[i])]_vars

(* A review.done without evidence and a plan.ready were ingested together:
   a review.blocked and the plan.ready were published in that order, and no
   queue holds a review.done. *)
C27_Witness ==
    /\ offset = 2
    /\ journal = <<EventLine(TReviewDone, T1Payload("none")),
                   EventLine(TPlanReady, T1Payload("none"))>>
    /\ Len(bus.observed) >= 2
    /\ bus.observed[Len(bus.observed) - 1].topic = <<"review", "blocked">>
    /\ bus.observed[Len(bus.observed)] = NewEvent(TPlanReady, T1Payload("none"))
    /\ \E h \in DOMAIN hats : \E i \in 1..Len(bus.pending[h]) :
          bus.pending[h][i].topic = <<"review", "blocked">>
    /\ \A h \in DOMAIN hats : \A i \in 1..Len(bus.pending[h]) :
          bus.pending[h][i].topic # TReviewDone

----------------------------------------------------------------------------
(* Order of the events of one ingest, checked under SpecIngest. *)

IsRoutedLine(line) == IsMalformed(line) \/ line.topic # TCompletion
NotAbandoned(e) == e.topic # TBuildAbandoned

(* The event p may be the one published for the batch event e: e itself,
   or the blocking event that replaces a rejected e. *)
StandsFor(p, e) ==
    \/ p = NewEvent(e.topic, e.payload)
    \/ e.topic = TBuildDone /\ p.topic = TBuildBlocked
    \/ e.topic = TReviewDone /\ p.topic = <<"review", "blocked">>
    \/ e.topic = <<"verify", "passed">> /\ p.topic = <<"verify", "failed">>

(* C28 (as stated): the events an ingest publishes for the lines it read,
   event.malformed events included, appear in the order of their lines in
   the journal. *)
C28_Original ==
    [][Ingested =>
        \E lines \in {SelectSeq(Batch, IsRoutedLine)} :
        \E pubs \in {SelectSeq(NewlyPublished, NotAbandoned)} :
            /\ Len(pubs) = Len(lines)
            /\ \A i \in 1..Len(lines) :
                  IF IsMalformed(lines[i]) THEN pubs[i] = MalformedEvent
                  ELSE pubs[i].topic # TEventMalformed /\ StandsFor(pubs[i], lines[i])]_vars

(* C28: an ingest publishes first one event.malformed for each malformed
   line of its batch, then the build.task.abandoned events, then one event
   for each parsed event of the batch other than completion events, these
   last in the order of their lines. *)
C28_IngestOrder ==
    [][Ingested =>
        \E m \in {Len(BatchMalformed)} :
        \E n \in {Len(NewlyPublished) - Len(BatchRouted)} :
            /\ m <= n
            /\ \A i \in 1..m : NewlyPublished[i] = MalformedEvent
            /\ \A i \in (m + 1)..n : NewlyPublished[i].topic = TBuildAbandoned
            /\ \A i \in 1..Len(BatchRouted) :
                  /\ StandsForEvent(NewlyPublished[n + i])
                  /\ StandsFor(NewlyPublished[n + i], BatchRouted[i])]_vars

(* A build.blocked followed by a malformed line were ingested together: the
   event.malformed was published before the build.blocked. *)
C28_Witness ==
    /\ offset >= 2
    /\ SubSeq(journal, 1, 2) = <<EventLine(TBuildBlocked, T1Payload("none")), MalformedLine>>
    /\ Len(bus.observed) >= 2
    /\ \E k \in 1..(Len(bus.observed) - 1) :
          /\ bus.observed[k] = MalformedEvent
          /\ bus.observed[k + 1] = NewEvent(TBuildBlocked, T1Payload("none"))
          /\ \A j \in 1..(k - 1) : bus.observed[j].topic \notin {TEventMalformed, TBuildBlocked}

----------------------------------------------------------------------------
(* Default publishes, checked under Spec. *)

(* The step that follows an agent invocation, and whether the hat has a
   default_publishes topic configured. *)
AgentReturned == pc = "agent" /\ pc' = "output"
HasDefaultPublishes ==
    hat \in DOMAIN cfg.registry /\ cfg.registry[hat].default_publishes # NoTopic

(* C29: after an agent invocation, when the journal received no event
   during the invocation and the hat has default_publishes configured,
   exactly one event is published, on that topic, with the hat as its source
   and an empty payload; when the journal received at least one event, or
   the hat has no default_publishes, nothing is published. *)
C29_DefaultPublishes ==
    [][AgentReturned =>
        IF BatchEvents = <<>> /\ HasDefaultPublishes
        THEN /\ Published
             /\ bus'.observed = Append(bus.observed, LastPublished)
             /\ LastPublished.topic = cfg.registry[hat].default_publishes
             /\ LastPublished.source = hat
             /\ LastPublished.payload = EmptyPayload
        ELSE bus' = bus]_vars

(* An agent invocation of a hat with default_publishes ended without a line
   in the journal, and the default event was published for the hat. *)
C29_Witness ==
    /\ pc = "output"
    /\ hat \in DOMAIN cfg.registry
    /\ cfg.registry[hat].default_publishes = TBuildDone
    /\ journal = <<>>
    /\ bus.observed[Len(bus.observed)] = with_source(NewEvent(TBuildDone, EmptyPayload), hat)

----------------------------------------------------------------------------
(* Stall recovery on its own: on an initialized loop with custom hats,
   build_prompt empties the queues, process_output records the hat that ran
   and inject_fallback_event is called when nothing is pending. *)

OutputCall(id, success) ==
    /\ pc = "journal"
    /\ termination = NoReason
    /\ \E st \in {process_output(state, id, success)} :
           /\ state' = st
           /\ termination' = check_termination(st, elapsed, stop_file, restart_file)
           /\ stop_file' = stop_file_after(st, elapsed, stop_file, restart_file)
           /\ restart_file' = restart_file_after(st, elapsed, stop_file, restart_file)
    /\ UNCHANGED <<cfg, hats, bus, elapsed, Reader, recovery_file, audit_log, prompts, pc, hat>>

FallbackCall ==
    /\ pc = "journal"
    /\ Len(prompts) <= MaxStalls
    /\ ~has_pending_events(bus)
    /\ bus' = inject_fallback_event(state, bus)
    /\ UNCHANGED <<cfg, hats, state, elapsed, Reader, Files, audit_log, prompts, pc, hat,
                   termination>>

NextStall ==
    \/ \E id \in DOMAIN hats, success \in BOOLEAN : OutputCall(id, success)
    \/ PromptCall
    \/ FallbackCall

SpecStall == InitIngest /\ [][NextStall]_vars

(* C30: when nothing is pending, stall recovery publishes one task.resume
   event, targeted at the last executing hat if there is one other than
   ralph and untargeted otherwise; the event is then pending for a hat (for
   its target when it has one), has_pending_events is true and next_hat
   returns a hat. *)
C30_StallRecovery ==
    [][(~has_pending_events(bus) /\ bus' # bus) =>
        /\ Published
        /\ bus'.observed = Append(bus.observed, LastPublished)
        /\ LastPublished.topic = TTaskResume
        /\ LastPublished.target =
              IF state.last_hat \notin {NoHat, "ralph"} THEN state.last_hat ELSE NoHat
        /\ \E h \in DOMAIN hats : bus'.pending[h] = <<LastPublished>>
        /\ LastPublished.target # NoHat =>
              \A h \in DOMAIN hats :
                  bus'.pending[h] = IF h = LastPublished.target THEN <<LastPublished>> ELSE <<>>
        /\ has_pending_events(bus')
        /\ next_hat(bus') # {}]_vars

(* The builder ran last and the loop stalled: the task.resume was targeted
   at the builder and is pending in its queue alone. *)
C30_Witness ==
    /\ state.last_hat = "builder"
    /\ Len(bus.observed) >= 1
    /\ bus.observed[Len(bus.observed)].topic = TTaskResume
    /\ bus.observed[Len(bus.observed)].target = "builder"
    /\ bus.pending["builder"] = <<bus.observed[Len(bus.observed)]>>
    /\ \A h \in DOMAIN hats \ {"builder"} : bus.pending[h] = <<>>

----------------------------------------------------------------------------
(* The counters of process_output, checked under Spec. *)

(* C31: every process_output call increases the iteration counter by
   exactly one, sets last_hat to the hat that ran, and sets
   consecutive_failures to zero on success and one higher on failure; no
   other step changes any of the three. *)
C31_IterationCounter ==
    [][/\ \A success \in BOOLEAN, cost \in {0, 1} :
             ProcessOutput(success, cost) =>
                 /\ state'.iteration = state.iteration + 1
                 /\ state'.last_hat = hat
                 /\ state'.consecutive_failures =
                        IF success THEN 0 ELSE state.consecutive_failures + 1
       /\ IF pc = "output" /\ pc' # "output"
          THEN state'.iteration = state.iteration + 1
          ELSE /\ state'.iteration = state.iteration
               /\ state'.last_hat = state.last_hat
               /\ state'.consecutive_failures = state.consecutive_failures]_vars

(* Two invocations ended, the first with success and the second with
   failure. *)
C31_Witness ==
    /\ state.iteration = 2
    /\ state.consecutive_failures = 1
    /\ state.last_hat = "ralph"

----------------------------------------------------------------------------
(* The triage classification, checked under SpecTriage. *)

TriagedAs(len, simple_kw, full_kw) ==
    \E tier1_kw \in BOOLEAN, tier3_kw \in BOOLEAN :
        /\ Initialize(Description(len, simple_kw, full_kw, tier1_kw, tier3_kw, "none"), "sha1")
        /\ bus' # bus

TriageLengths == {21, 39, 40, 100, 200, 201, 250}

(* C32 (as stated): a description shorter than 40 with no Full keyword is
   classified Simple with confidence 0.8, one with a Full keyword or longer
   than 200 is classified Full with confidence 0.85, and any other is
   classified Full with confidence 0.6. *)
C32_Original ==
    [][\A len \in TriageLengths, simple_kw \in BOOLEAN, full_kw \in BOOLEAN :
          TriagedAs(len, simple_kw, full_kw) =>
              \E d \in {Description(len, simple_kw, full_kw, FALSE, FALSE, "none")} :
                 /\ analyze(d) =
                       IF len < 40 /\ ~full_kw THEN [mode |-> "Simple", confidence |-> 80]
                       ELSE IF full_kw \/ len > 200 THEN [mode |-> "Full", confidence |-> 85]
                       ELSE [mode |-> "Full", confidence |-> 60]
                 /\ state'.triage_decision = analyze(d).mode]_vars

(* C32: a description with a Simple keyword and no Full keyword is classified
   Simple with confidence 0.9 whatever its length; otherwise one with a Full
   keyword or longer than 200 bytes is classified Full with confidence 0.85;
   otherwise one shorter than 40 bytes is classified Simple with confidence
   0.8; any other is classified Full with confidence 0.6.  The mode is the
   one stored for the task. *)
C32_Triage ==
    [][\A len \in TriageLengths, simple_kw \in BOOLEAN, full_kw \in BOOLEAN :
          TriagedAs(len, simple_kw, full_kw) =>
              \E d \in {Description(len, simple_kw, full_kw, FALSE, FALSE, "none")} :
                 /\ (simple_kw /\ ~full_kw) =>
                        analyze(d) = [mode |-> "Simple", confidence |-> 90]
                 /\ (~(simple_kw /\ ~full_kw) /\ (full_kw \/ len > 200)) =>
                        analyze(d) = [mode |-> "Full", confidence |-> 85]
                 /\ (~simple_kw /\ ~full_kw /\ len < 40) =>
                        analyze(d) = [mode |-> "Simple", confidence |-> 80]
                 /\ (~simple_kw /\ ~full_kw /\ len >= 40 /\ len <= 200) =>
                        analyze(d) = [mode |-> "Full", confidence |-> 60]
                 /\ state'.triage_decision = analyze(d).mode
                 /\ bus'.routing_mode = analyze(d).mode]_vars

(* A task was classified Simple and its strategy is Tier 2: the description
   had neither a Tier 1 nor a Tier 3 keyword. *)
C32_Witness ==
    /\ pc = "block"
    /\ state.iteration = 0
    /\ state.triage_decision = "Simple"
    /\ state.active_strategy = "Tier2"
    /\ bus.routing_mode = "Simple"
    /\ Len(bus.observed) = 3

----------------------------------------------------------------------------
(* strip_ansi on its own: a build.done payload made of escape bytes,
   sequence bytes, a two-byte character and an evidence phrase is written to
   the journal and then stripped, and the result stripped again.  49 is '1',
   109 is 'm', C3 A9 is U+00E9, the long piece is "tests: pass". *)

RECURSIVE concat(_)
concat(pieces) == IF pieces = <<>> THEN <<>> ELSE Head(pieces) \o concat(Tail(pieces))

InitStrip ==
    /\ cfg = [registry |-> SoloRegistry, persistent |-> FALSE]
    /\ hats = ConstructedHats(cfg.registry)
    /\ InitRest
    /\ pc = "journal"

StripCall ==
    /\ pc \in {"journal", "stripped"}
    /\ journal # <<>>
    /\ journal' = <<EventLine(TBuildDone, TextPayload(strip_ansi(journal[1].payload.text)))>>
    /\ pc' = IF pc = "journal" THEN "stripped" ELSE "restripped"
    /\ UNCHANGED <<cfg, hats, bus, state, elapsed, offset, Files, audit_log, prompts, hat,
                   termination>>

NextStrip ==
    \/ /\ journal = <<>>
       /\ \E n \in 1..MaxPieces :
          \E pieces \in [1..n ->
                { <<ESC>>, <<91>>, <<93>>, <<92>>, <<7>>, <<49>>, <<109>>, <<195, 169>>,
                  <<116, 101, 115, 116, 115, 58, 32, 112, 97, 115, 115>> }] :
             WriteLine(EventLine(TBuildDone, TextPayload(concat(pieces))))
    \/ StripCall

SpecStrip == InitStrip /\ [][NextStrip]_vars

StripText == journal[1].payload.text
HasEscape(s) == \E k \in 1..Len(s) : s[k] = ESC

(* C33: the output of strip_ansi holds no escape byte; stripping it again
   leaves it as it is, and the evidence parsed from the stripped payload is
   the evidence parsed from the payload stripped twice. *)
C33_StripIdempotent ==
    [][StripCall =>
          /\ ~HasEscape(journal'[1].payload.text)
          /\ pc = "stripped" =>
                /\ journal'[1].payload.text = StripText
                /\ parse_backpressure_evidence_bytes(journal'[1].payload.text)
                       = parse_backpressure_evidence_bytes(StripText)]_vars

(* A payload in which an escape byte stood in front of a two-byte character
   and an evidence phrase was stripped twice: the character's second byte
   was replaced by U+FFFD, and the evidence is reported. *)
C33_Witness ==
    /\ pc = "restripped"
    /\ parse_backpressure_evidence_bytes(StripText).tests_passed
    /\ Len(StripText) = 14
    /\ SubSeq(StripText, 1, 3) = <<239, 191, 189>>

----------------------------------------------------------------------------
(* Events taken by build_prompt, checked under Spec. *)

TakenFromQueue == \E h \in DOMAIN hats : Len(bus'.pending[h]) < Len(bus.pending[h])

(* C34 (as stated): a build_prompt call that takes events from a hat's
   queue returns a prompt; no event is taken from a queue, the queues of the
   built-in tea and simple-executor hats included, by a call that returns
   none. *)
C34_Original ==
    [][(pc = "prompt" /\ pc' # "prompt" /\ TakenFromQueue)
          => Len(prompts') = Len(prompts) + 1]_vars

----------------------------------------------------------------------------
(* is_halted and the recovery sentinel, checked under Spec. *)

(* C35 (as stated): is_halted is true only while the sentinel is non-empty;
   in particular, when the engine finds the sentinel empty at its recovery
   block point and moves on, is_halted is false, also when a human cleared
   the sentinel between the recording of a failure and that block point. *)
C35_Original ==
    [][(pc = "block" /\ pc' = "ingest") =>
          /\ ~is_blocked(recovery_file)
          /\ ~state'.is_halted]_vars

----------------------------------------------------------------------------
(* Journal lines and the reads that consume them, checked under Spec. *)

ConsumedLines(line) == Cardinality({i \in 1..offset : journal[i] = line})

(* C36 (as stated): every well-formed line of the journal that a read has
   consumed was validated and published exactly once: after an ingest, the
   bus has seen one build.blocked event with the line's payload for every
   consumed build.blocked line, the lines read while events were counted
   before and after the agent's invocation included. *)
C36_Original ==
    pc = "complete" =>
        PublishedFor(TBuildBlocked, <<"T1">>)
            = ConsumedLines(EventLine(TBuildBlocked, T1Payload("none")))

----------------------------------------------------------------------------
(* The strategy of the loop state and the strategy of the bus, checked
   under SpecGate. *)

IsStrategyEvent(e) == e.topic = TTestStrategy /\ ParseTestStrategy(e.payload) # NoStrategy
StrategyEvents == SelectSeq(bus.observed, IsStrategyEvent)

(* C37 (as stated): the strategy held in the loop state, which gates
   build.done, equals the bus's active strategy, and both are the strategy
   of the most recently published parseable test.strategy event. *)
C37_Original ==
    /\ state.active_strategy = bus.active_strategy
    /\ StrategyEvents # <<>> =>
          state.active_strategy
              = ParseTestStrategy(StrategyEvents[Len(StrategyEvents)].payload)

----------------------------------------------------------------------------
(* Thrashing counters and the tasks they stand for, checked under
   SpecIngest. *)

IsBlockOf(line, task_id) ==
    /\ IsEvent(line)
    /\ \/ line.topic = TBuildBlocked
       \/ line.topic = TBuildDone /\ line.payload.ev # "pass"
    /\ extract_task_id(line.payload) = task_id

BlocksConcerning(task_id) ==
    Cardinality({i \in 1..offset : IsBlockOf(journal[i], task_id)})

(* C38 (as stated): a task is abandoned only after three build.blocked
   events that concern that same task: whenever something has been
   abandoned, one of the tasks has been blocked three times, by build.blocked
   lines or by rejected build.done lines of that task; the rejected
   build.done events of different tasks do not add up on one counter. *)
C38_Original ==
    state.abandoned_tasks # <<>> =>
        \E task_id \in {<<"T1">>, <<"T2">>} : BlocksConcerning(task_id) >= BlockLimit

----------------------------------------------------------------------------
(* Prompt composition with a limited planner: a planner subscribed to
   task.start with max_activations = 1, a task classified Simple or Full,
   and agents that write task.start and plan.ready lines. *)

InitLimited ==
    /\ cfg = [registry |-> [id \in {"planner"} |-> HatCfg({TTaskStart}, 1, NoTopic)],
              persistent |-> FALSE]
    /\ hats = ConstructedHats(cfg.registry)
    /\ \E d \in Descriptions :
          LET r == initialize_with_topic(LoopStateNew, EmptyBus(hats), <<>>, d, "sha1")
          IN  state = r.st /\ bus = r.b /\ audit_log = r.al
    /\ elapsed = 0
    /\ journal = <<>>
    /\ offset = 0
    /\ recovery_file = <<>>
    /\ stop_file = FALSE
    /\ restart_file = FALSE
    /\ prompts = <<>>
    /\ hat = NoHat
    /\ termination = NoReason
    /\ pc = "journal"

NextLimited ==
    \/ \E topic \in {TTaskStart, TPlanReady} : WriteLine(EventLine(topic, T1Payload("none")))
    \/ IngestCall
    \/ PromptCall

SpecLimited == InitLimited /\ [][NextLimited]_vars

(* C39 (as stated): the recorded activation count of a hat with
   max_activations = N never exceeds N, whichever queue the activating
   events were taken from. *)
C39_Original ==
    \A h \in LimitedHats :
        CountOf(state.hat_activation_counts, h) <= cfg.registry[h].max_activations

----------------------------------------------------------------------------
(* The ingest with a human-interface adapter: agents write human.interact
   and plan.ready lines; when the batch holds a human.interact the engine
   sends the question and blocks in wait_for_response, which returns the
   text of the human.response line the adapter sees appended to the journal,
   or nothing when the adapter's timeout elapses. *)

RobotIngestCall(answered) ==
    /\ pc = "journal"
    /\ offset < Len(journal)
    /\ \E result \in {read_new_events(journal, offset)} :
       \E r \in {process_events_from_jsonl(
                    [st |-> state, b |-> bus, rf |-> recovery_file, al |-> audit_log], result)} :
       \E response \in {answered /\ \E i \in 1..Len(result.events) :
                                        result.events[i].topic = <<"human", "interact">>} :
          /\ offset' = result.position
          /\ state' = r.st
          /\ recovery_file' = r.rf
          /\ audit_log' = r.al
          /\ journal' = IF response
                        THEN Append(journal, EventLine(<<"human", "response">>,
                                                       TextPayload(<<"yes">>)))
                        ELSE journal
          /\ bus' = IF response
                    THEN publish(r.b, NewEvent(<<"human", "response">>, TextPayload(<<"yes">>)))
                    ELSE r.b
    /\ UNCHANGED <<cfg, hats, elapsed, stop_file, restart_file, prompts, pc, hat, termination>>

NextRobot ==
    \/ \E topic \in {<<"human", "interact">>, TPlanReady} :
          WriteLine(EventLine(topic, T1Payload("none")))
    \/ \E answered \in BOOLEAN : RobotIngestCall(answered)

SpecRobot == InitIngest /\ [][NextRobot]_vars

HumanResponses(events) ==
    Cardinality({i \in 1..Len(events) : events[i].topic = <<"human", "response">>})

(* C40 (as stated): each human response is delivered exactly once: the bus
   has seen no more human.response events than there are human.response
   lines in the journal, and the human-pending queue holds no more. *)
C40_Original ==
    /\ HumanResponses(bus.observed) <= HumanResponses(journal)
    /\ HumanResponses(bus.human_pending) <= HumanResponses(journal)

====
